---- MODULE Spec2Model ----
(***************************************************************************)
(* Goaly: the AI request/response layer (src/ai).                          *)
(*                                                                         *)
(* A capability function checks the API key, builds the configuration,     *)
(* issues one chat-completion request, and turns the text that comes back  *)
(* into a result of a fixed shape.  Texts are sequences of one-character   *)
(* strings; Python values are records with a type tag; json.loads, the     *)
(* regular expression, str(), strip() and slicing are modelled by what     *)
(* they compute on those.                                                  *)
(***************************************************************************)
EXTENDS Integers, Sequences, FiniteSets, TLC

\* ------------------------------------------------------------------ bounds

\* Longest upstream list the transport text may carry (one more than the
\* largest list cap of the capabilities, so that every cap truncates).
MaxItems == 4

\* The last day a request arrives on; the goals of the tables below are
\* created on days 1 and 2 and the first request arrives on FirstDay.
MaxDay == 3

\* The number of requests one behaviour of the web layer serves.
MaxRuns == 2

\* requests to the goal endpoints in one behaviour
MaxRequests == 2

\* ---------------------------------------------------------------- strings

SetMin(S) == CHOOSE x \in S : \A y \in S : x <= y
SetMax(S) == CHOOSE x \in S : \A y \in S : x >= y

\* Characters str.strip() removes and json.loads skips between tokens.
Whitespace == {" ", "\n", "\t", "\r"}

\* The character at position i, "" past either end.
At(t, i) == IF i \in 1..Len(t) THEN t[i] ELSE ""

\* str.strip()
strip(s) ==
    LET keep == {i \in 1..Len(s) : s[i] \notin Whitespace}
    IN  IF keep = {} THEN <<>> ELSE SubSeq(s, SetMin(keep), SetMax(keep))

\* s[:n]
Slice(s, n) == SubSeq(s, 1, IF Len(s) < n THEN Len(s) ELSE n)

\* n copies of the character c
Rep(c, n) == [i \in 1..n |-> c]

\* sep.join(ss)
RECURSIVE Join(_, _)
Join(sep, ss) ==
    IF ss = <<>> THEN <<>>
    ELSE IF Len(ss) = 1 THEN ss[1]
    ELSE ss[1] \o sep \o Join(sep, Tail(ss))

Digits == <<"0", "1", "2", "3", "4", "5", "6", "7", "8", "9">>
DigitChars == {Digits[i] : i \in 1..10}
DigitVal(c) == (CHOOSE i \in 1..10 : Digits[i] = c) - 1

\* the decimal text of a natural number
RECURSIVE NatToChars(_)
NatToChars(n) ==
    IF n < 10 THEN <<Digits[n + 1]>>
    ELSE NatToChars(n \div 10) \o <<Digits[(n % 10) + 1]>>

RECURSIVE CharsToNat(_)
CharsToNat(ds) ==
    IF ds = <<>> THEN 0
    ELSE CharsToNat(SubSeq(ds, 1, Len(ds) - 1)) * 10 + DigitVal(ds[Len(ds)])

\* ---------------------------------------------------------- Python values

\* One record shape for every value json.loads can produce.
PyVal(t, b, n, s, keys, items) ==
    [t |-> t, b |-> b, n |-> n, s |-> s, keys |-> keys, items |-> items]

PyNone          == PyVal("null", FALSE, 0, <<>>, <<>>, <<>>)
PyBool(b)       == PyVal("bool", b, 0, <<>>, <<>>, <<>>)
PyInt(n)        == PyVal("int", FALSE, n, <<>>, <<>>, <<>>)
PyStrVal(s)     == PyVal("str", FALSE, 0, s, <<>>, <<>>)
PyList(items)   == PyVal("list", FALSE, 0, <<>>, <<>>, items)
PyDict(ks, vs)  == PyVal("dict", FALSE, 0, <<>>, ks, vs)
EmptyDict       == PyDict(<<>>, <<>>)

\* Python truthiness: what `x or default` and `if x` test.
Truthy(v) ==
    CASE v.t = "null" -> FALSE
      [] v.t = "bool" -> v.b
      [] v.t = "int"  -> v.n # 0
      [] v.t = "str"  -> v.s # <<>>
      [] v.t = "list" -> v.items # <<>>
      [] v.t = "dict" -> v.keys # <<>>

\* k in obj
HasKey(obj, k) == \E i \in 1..Len(obj.keys) : obj.keys[i] = k

\* obj.get(k, default)
DictGet(obj, k, default) ==
    IF HasKey(obj, k)
    THEN obj.items[CHOOSE i \in 1..Len(obj.keys) : obj.keys[i] = k]
    ELSE default

\* d[k] = v on a dict under construction: a repeated key keeps its place and
\* takes the later value.
DictPut(d, k, v) ==
    IF HasKey(d, k)
    THEN LET i == CHOOSE j \in 1..Len(d.keys) : d.keys[j] = k
         IN  PyDict(d.keys, [d.items EXCEPT ![i] = v])
    ELSE PyDict(Append(d.keys, k), Append(d.items, v))

\* repr(x) and str(x)
RECURSIVE PyRepr(_)
PyReprSeq(vs) == [i \in 1..Len(vs) |-> PyRepr(vs[i])]
PyRepr(v) ==
    CASE v.t = "null" -> <<"N", "o", "n", "e">>
      [] v.t = "bool" -> IF v.b THEN <<"T", "r", "u", "e">>
                                ELSE <<"F", "a", "l", "s", "e">>
      [] v.t = "int"  -> NatToChars(v.n)
      [] v.t = "str"  -> <<"'">> \o v.s \o <<"'">>
      [] v.t = "list" -> <<"[">> \o Join(<<",", " ">>, PyReprSeq(v.items)) \o <<"]">>
      [] v.t = "dict" ->
            <<"{">> \o
            Join(<<",", " ">>,
                 [i \in 1..Len(v.keys) |->
                     <<"'">> \o v.keys[i] \o <<"'", ":", " ">> \o PyRepr(v.items[i])])
            \o <<"}">>

str(v) == IF v.t = "str" THEN v.s ELSE PyRepr(v)

\* ------------------------------------------------------------- json.loads

ParseFail     == [ok |-> FALSE, v |-> PyNone, n |-> 0]
ParseOk(v, n) == [ok |-> TRUE, v |-> v, n |-> n]

\* the first position at or after i that holds no whitespace
SkipWs(t, i) ==
    LET rest == {j \in i..Len(t) : t[j] \notin Whitespace}
    IN  IF rest = {} THEN Len(t) + 1 ELSE SetMin(rest)

HasAt(t, i, lit) ==
    /\ i + Len(lit) - 1 <= Len(t)
    /\ SubSeq(t, i, i + Len(lit) - 1) = lit

\* a string literal whose opening quote is at i
ParseString(t, i) ==
    LET close == {j \in (i + 1)..Len(t) : t[j] = "\""}
    IN  IF close = {} THEN ParseFail
        ELSE LET j == SetMin(close)
                 body == SubSeq(t, i + 1, j - 1)
             IN  IF \E k \in 1..Len(body) : body[k] \in {"\n", "\t", "\r"}
                 THEN ParseFail
                 ELSE ParseOk(PyStrVal(body), j + 1)

\* an integer literal starting at i: 0, or a non-zero digit and more digits
ParseNumber(t, i) ==
    IF t[i] = "0" THEN ParseOk(PyInt(0), i + 1)
    ELSE LET stop == {j \in i..Len(t) : t[j] \notin DigitChars}
             e == IF stop = {} THEN Len(t) + 1 ELSE SetMin(stop)
         IN  ParseOk(PyInt(CharsToNat(SubSeq(t, i, e - 1))), e)

RECURSIVE ParseValue(_, _), ParseElements(_, _, _), ParseMembers(_, _, _)

\* the JSON value that starts at position i
ParseValue(t, i) ==
    LET c == At(t, i)
    IN  CASE c = "\"" -> ParseString(t, i)
          [] c = "{"  ->
                LET j == SkipWs(t, i + 1)
                IN  IF At(t, j) = "}" THEN ParseOk(EmptyDict, j + 1)
                    ELSE ParseMembers(t, j, EmptyDict)
          [] c = "["  ->
                LET j == SkipWs(t, i + 1)
                IN  IF At(t, j) = "]" THEN ParseOk(PyList(<<>>), j + 1)
                    ELSE ParseElements(t, j, <<>>)
          [] c \in DigitChars -> ParseNumber(t, i)
          [] OTHER ->
                IF HasAt(t, i, <<"n", "u", "l", "l">>) THEN ParseOk(PyNone, i + 4)
                ELSE IF HasAt(t, i, <<"t", "r", "u", "e">>) THEN ParseOk(PyBool(TRUE), i + 4)
                ELSE IF HasAt(t, i, <<"f", "a", "l", "s", "e">>) THEN ParseOk(PyBool(FALSE), i + 5)
                ELSE ParseFail

\* the elements of an array, the next one starting at i
ParseElements(t, i, acc) ==
    LET r == ParseValue(t, i)
    IN  IF ~r.ok THEN ParseFail
        ELSE LET k == SkipWs(t, r.n)
                 got == Append(acc, r.v)
             IN  IF At(t, k) = "]" THEN ParseOk(PyList(got), k + 1)
                 ELSE IF At(t, k) = "," THEN ParseElements(t, SkipWs(t, k + 1), got)
                 ELSE ParseFail

\* the members of an object, the next key starting at i
ParseMembers(t, i, acc) ==
    IF At(t, i) # "\"" THEN ParseFail
    ELSE LET key == ParseString(t, i)
         IN  IF ~key.ok THEN ParseFail
             ELSE LET c == SkipWs(t, key.n)
                  IN  IF At(t, c) # ":" THEN ParseFail
                      ELSE LET r == ParseValue(t, SkipWs(t, c + 1))
                           IN  IF ~r.ok THEN ParseFail
                               ELSE LET k == SkipWs(t, r.n)
                                        got == DictPut(acc, key.v.s, r.v)
                                    IN  IF At(t, k) = "}" THEN ParseOk(got, k + 1)
                                        ELSE IF At(t, k) = ","
                                             THEN ParseMembers(t, SkipWs(t, k + 1), got)
                                             ELSE ParseFail

\* json.loads(t): the value, or raised (JSONDecodeError) when t is not one
\* JSON document followed only by whitespace.
json_loads(t) ==
    LET r == ParseValue(t, SkipWs(t, 1))
    IN  IF r.ok /\ SkipWs(t, r.n) = Len(t) + 1
        THEN [raised |-> FALSE, value |-> r.v]
        ELSE [raised |-> TRUE, value |-> PyNone]

\* -------------------------------------------------------- fixed strings

K_verified == <<"v", "e", "r", "i", "f", "i", "e", "d">>
K_feedback == <<"f", "e", "e", "d", "b", "a", "c", "k">>
K_daily    == <<"d", "a", "i", "l", "y">>
K_weekly   == <<"w", "e", "e", "k", "l", "y">>
K_monthly  == <<"m", "o", "n", "t", "h", "l", "y">>
K_yearly   == <<"y", "e", "a", "r", "l", "y">>
K_subgoals == <<"s", "u", "b", "g", "o", "a", "l", "s">>
K_tips     == <<"t", "i", "p", "s">>

\* "Could not confidently verify evidence from the provided image."
FEEDBACK_MISSING_KEYS ==
    <<"C", "o", "u", "l", "d", " ", "n", "o", "t", " ", "c", "o", "n", "f",
    "i", "d", "e", "n", "t", "l", "y", " ", "v", "e", "r", "i", "f", "y", " ",
    "e", "v", "i", "d", "e", "n", "c", "e", " ", "f", "r", "o", "m", " ", "t",
    "h", "e", " ", "p", "r", "o", "v", "i", "d", "e", "d", " ", "i", "m", "a",
    "g", "e", ".">>

\* "Could not determine clear evidence; try a clearer photo."
FEEDBACK_EMPTY ==
    <<"C", "o", "u", "l", "d", " ", "n", "o", "t", " ", "d", "e", "t", "e",
    "r", "m", "i", "n", "e", " ", "c", "l", "e", "a", "r", " ", "e", "v", "i",
    "d", "e", "n", "c", "e", ";", " ", "t", "r", "y", " ", "a", " ", "c", "l",
    "e", "a", "r", "e", "r", " ", "p", "h", "o", "t", "o", ".">>

\* "Pick one goal and do a 12-minute start right now."
COACHING_FALLBACK ==
    <<"P", "i", "c", "k", " ", "o", "n", "e", " ", "g", "o", "a", "l", " ",
    "a", "n", "d", " ", "d", "o", " ", "a", " ", "1", "2", "-", "m", "i", "n",
    "u", "t", "e", " ", "s", "t", "a", "r", "t", " ", "r", "i", "g", "h", "t",
    " ", "n", "o", "w", ".">>

\* "Your year is still being written. Keep showing up."
REPORT_FALLBACK ==
    <<"Y", "o", "u", "r", " ", "y", "e", "a", "r", " ", "i", "s", " ", "s",
    "t", "i", "l", "l", " ", "b", "e", "i", "n", "g", " ", "w", "r", "i", "t",
    "t", "e", "n", ".", " ", "K", "e", "e", "p", " ", "s", "h", "o", "w", "i",
    "n", "g", " ", "u", "p", ".">>

\* ["Break it down", "Schedule time", "Track progress"]
FALLBACK_TIPS ==
    PyList(<<
      PyStrVal(<<"B", "r", "e", "a", "k", " ", "i", "t", " ", "d", "o", "w", "n">>),
      PyStrVal(<<"S", "c", "h", "e", "d", "u", "l", "e", " ", "t", "i", "m", "e">>),
      PyStrVal(<<"T", "r", "a", "c", "k", " ", "p", "r", "o", "g", "r", "e", "s", "s">>)
    >>)

\* the slice bounds of the results
FEEDBACK_MAX == 300
DAILY_MAX    == 3
WEEKLY_MAX   == 2
MONTHLY_MAX  == 1
SUBGOALS_MAX == 3
TIPS_MAX     == 3
PLAN_MAX     == 3

\* ------------------------------------------------------ response coercion

\* The search with a lazy star, \{[\s\S]*?\} : up to the first "}".
_JSON_OBJECT_RE_search_Lazy(t) ==
    LET starts == {i \in 1..Len(t) :
                      t[i] = "{" /\ \E j \in (i + 1)..Len(t) : t[j] = "}"}
    IN  IF starts = {} THEN [found |-> FALSE, group0 |-> <<>>]
        ELSE LET i == SetMin(starts)
                 j == SetMin({k \in (i + 1)..Len(t) : t[k] = "}"})
             IN  [found |-> TRUE, group0 |-> SubSeq(t, i, j)]

\* _JSON_OBJECT_RE.search(t) for the pattern \{[\s\S]*\} : the leftmost "{"
\* that a "}" follows, and, the star being greedy, up to the last "}".
_JSON_OBJECT_RE_search(t) ==
    LET starts == {i \in 1..Len(t) :
                      t[i] = "{" /\ \E j \in (i + 1)..Len(t) : t[j] = "}"}
    IN  IF starts = {} THEN [found |-> FALSE, group0 |-> <<>>]
        ELSE LET i == SetMin(starts)
                 j == SetMax({k \in (i + 1)..Len(t) : t[k] = "}"})
             IN  [found |-> TRUE, group0 |-> SubSeq(t, i, j)]

\* What a call leaves behind: the value it returned, or the exception that
\* left it.
Return(v) == [kind |-> "return", exc |-> "", ret |-> v]
Raise(e)  == [kind |-> "raise", exc |-> e, ret |-> PyNone]

\* The try statement without its except clause: the decode error leaves it.
TryLoadDict_Uncaught(r) ==
    IF r.raised THEN [raised |-> TRUE, found |-> FALSE, value |-> EmptyDict]
    ELSE IF r.value.t = "dict"
         THEN [raised |-> FALSE, found |-> TRUE, value |-> r.value]
         ELSE [raised |-> FALSE, found |-> FALSE, value |-> EmptyDict]

\* try: obj = json.loads(...); <the dict check> except Exception: <go on>
\* for the result r of json.loads.  found: r is a dict; raised: the
\* exception left the try statement.
TryLoadDict(r) ==
    IF r.raised THEN [raised |-> FALSE, found |-> FALSE, value |-> EmptyDict]
    ELSE IF r.value.t = "dict"
         THEN [raised |-> FALSE, found |-> TRUE, value |-> r.value]
         ELSE [raised |-> FALSE, found |-> FALSE, value |-> EmptyDict]

\* lines 39-43: the second try statement, part being what it found
LoadPart(part) ==
    IF part.raised THEN Raise("JSONDecodeError") ELSE Return(part.value)

\* lines 36-43: m is the match of the regular expression
LoadMatch(m) ==
    IF ~m.found THEN Return(EmptyDict)
    ELSE LoadPart(TryLoadDict(json_loads(m.group0)))

\* lines 29-43: whole is what the first try statement found
LoadWhole(text, whole) ==
    IF whole.raised THEN Raise("JSONDecodeError")
    ELSE IF whole.found THEN Return(whole.value)
    ELSE LoadMatch(_JSON_OBJECT_RE_search(text))

\* lines 27-43: text is the trimmed argument
LoadStripped(text) ==
    IF text = <<>> THEN Return(EmptyDict)
    ELSE LoadWhole(text, TryLoadDict(json_loads(text)))

_best_effort_json_loads(raw) == LoadStripped(strip(raw))

\* any() where the code has all(): one key is enough.
_require_keys_Any(obj, keys) == \E i \in 1..Len(keys) : HasKey(obj, keys[i])

\* all(k in obj for k in keys)
_require_keys(obj, keys) == \A i \in 1..Len(keys) : HasKey(obj, keys[i])

\* ---------------------------------------------------- capability results
\* Each capability is given below from the point where chat_completion has
\* returned: `loaded` is how _best_effort_json_loads(text) ended.

\* a or b
Or(a, b) == IF Truthy(a) THEN a ELSE b

\* whether map(f, x) accepts x, and the values iterating x yields
Iterable(x) == x.t \in {"list", "str", "dict"}
Iterate(x) ==
    CASE x.t = "list" -> x.items
      [] x.t = "str"  -> [i \in 1..Len(x.s) |-> PyStrVal(<<x.s[i]>>)]
      [] x.t = "dict" -> [i \in 1..Len(x.keys) |-> PyStrVal(x.keys[i])]

\* list(map(str, xs))
MapStr(xs) == [i \in 1..Len(xs) |-> PyStrVal(str(xs[i]))]

\* The comprehension keeping each s as it is.
StripEach_Unstripped(xs) == xs

\* [s.strip() for s in xs]
StripEach(xs) == [i \in 1..Len(xs) |-> PyStrVal(strip(xs[i].s))]

\* [s.strip() for s in xs if isinstance(s, str) and s.strip()]
StripStrings(xs) ==
    StripEach(SelectSeq(xs, LAMBDA s : s.t = "str" /\ strip(s.s) # <<>>))

\* [str(s).strip() for s in xs if str(s).strip()]
StrStripAll(xs) ==
    StripEach(SelectSeq(MapStr(xs), LAMBDA s : strip(s.s) # <<>>))

EvidenceVerificationResult(verified, feedback) ==
    PyVal("EvidenceVerificationResult", FALSE, 0, <<>>,
          <<K_verified, K_feedback>>, <<PyBool(verified), PyStrVal(feedback)>>)

\* s or default, for texts
OrText(s, default) == IF s # <<>> THEN s ELSE default

\* The feedback without the slice.
FeedbackOf_Unsliced(obj) ==
    strip(str(Or(DictGet(obj, K_feedback, PyNone), PyStrVal(<<>>))))

\* str(obj.get("feedback") or "").strip()[:300]
FeedbackOf(obj) ==
    Slice(strip(str(Or(DictGet(obj, K_feedback, PyNone), PyStrVal(<<>>)))),
          FEEDBACK_MAX)

\* verify_goal_evidence, lines 124-134
VerifyObj(obj) ==
    IF ~_require_keys(obj, <<K_verified, K_feedback>>)
    THEN Return(EvidenceVerificationResult(FALSE, FEEDBACK_MISSING_KEYS))
    ELSE Return(EvidenceVerificationResult(
                    Truthy(DictGet(obj, K_verified, PyNone)),
                    OrText(FeedbackOf(obj), FEEDBACK_EMPTY)))

verify_goal_evidence(loaded) ==
    IF loaded.kind = "raise" THEN loaded ELSE VerifyObj(loaded.ret)

\* The text returned as it is, without the fallback.
get_ai_coaching_NoFallback(text) == Return(PyStrVal(text))

\* get_ai_coaching, lines 157-162
get_ai_coaching(text) == Return(PyStrVal(OrText(text, COACHING_FALLBACK)))

\* list(map(str, x))[:n], then the filter of line 208, for x = obj.get(k, []) or []
DecomposeList(x, n) ==
    IF ~Iterable(x) THEN Raise("TypeError")
    ELSE Return(PyList(StripStrings(Slice(MapStr(Iterate(x)), n))))

DecomposeKey(obj, k, n) ==
    DecomposeList(Or(DictGet(obj, k, PyList(<<>>)), PyList(<<>>)), n)

\* the dict of lines 201-209 from its three lists, or the first exception
DecomposeOut(daily, weekly, monthly) ==
    IF daily.kind = "raise" THEN daily
    ELSE IF weekly.kind = "raise" THEN weekly
    ELSE IF monthly.kind = "raise" THEN monthly
    ELSE Return(PyDict(<<K_daily, K_weekly, K_monthly>>,
                       <<daily.ret, weekly.ret, monthly.ret>>))

DecomposeObj(obj) ==
    DecomposeOut(DecomposeKey(obj, K_daily, DAILY_MAX),
                 DecomposeKey(obj, K_weekly, WEEKLY_MAX),
                 DecomposeKey(obj, K_monthly, MONTHLY_MAX))

\* decompose_yearly_goal, lines 200-209
decompose_yearly_goal(loaded) ==
    IF loaded.kind = "raise" THEN loaded ELSE DecomposeObj(loaded.ret)

\* if not isinstance(x, list): x = []
ListOnly(x) == IF x.t = "list" THEN x.items ELSE <<>>

\* x = obj.get(k, []) or []; if not isinstance(x, list): x = []
ListOrEmpty(obj, k) == ListOnly(Or(DictGet(obj, k, PyList(<<>>)), PyList(<<>>)))

\* [str(s).strip() for s in x if str(s).strip()][:n] for the list under k
CleanList(obj, k, n) == PyList(Slice(StrStripAll(ListOrEmpty(obj, k)), n))

\* refine_goal, lines 248-253
refine_goal(loaded) ==
    IF loaded.kind = "raise" THEN loaded
    ELSE Return(CleanList(loaded.ret, K_subgoals, SUBGOALS_MAX))

\* The fallback taken whenever fewer than three tips are left.
get_goal_tips_Padded(loaded) ==
    IF loaded.kind = "raise" THEN loaded
    ELSE IF Len(CleanList(loaded.ret, K_tips, TIPS_MAX).items) < TIPS_MAX
    THEN Return(FALLBACK_TIPS)
    ELSE Return(CleanList(loaded.ret, K_tips, TIPS_MAX))

\* get_goal_tips, lines 292-297
get_goal_tips(loaded) ==
    IF loaded.kind = "raise" THEN loaded
    ELSE Return(Or(CleanList(loaded.ret, K_tips, TIPS_MAX), FALLBACK_TIPS))

\* One default for the whole plan: a key that is missing or no list empties
\* every key.
PlanObj_AllOrNothing(obj) ==
    IF \A k \in {K_daily, K_weekly, K_monthly, K_yearly} :
            HasKey(obj, k) /\ DictGet(obj, k, PyNone).t = "list"
    THEN Return(PyDict(<<K_daily, K_weekly, K_monthly, K_yearly>>,
                       <<CleanList(obj, K_daily, PLAN_MAX),
                         CleanList(obj, K_weekly, PLAN_MAX),
                         CleanList(obj, K_monthly, PLAN_MAX),
                         CleanList(obj, K_yearly, PLAN_MAX)>>))
    ELSE Return(PyDict(<<K_daily, K_weekly, K_monthly, K_yearly>>,
                       <<PyList(<<>>), PyList(<<>>), PyList(<<>>), PyList(<<>>)>>))

PlanObj(obj) ==
    Return(PyDict(<<K_daily, K_weekly, K_monthly, K_yearly>>,
                  <<CleanList(obj, K_daily, PLAN_MAX),
                    CleanList(obj, K_weekly, PLAN_MAX),
                    CleanList(obj, K_monthly, PLAN_MAX),
                    CleanList(obj, K_yearly, PLAN_MAX)>>))

\* plan_yearly_goals, lines 340-351
plan_yearly_goals(loaded) ==
    IF loaded.kind = "raise" THEN loaded ELSE PlanObj(loaded.ret)

\* generate_yearly_report, lines 377-382
generate_yearly_report(text) == Return(PyStrVal(OrText(text, REPORT_FALLBACK)))

\* --------------------------------------------------------- configuration

\* os.getenv(name): None when unset
getenv(e, name) == e[name]

\* os.getenv(name, default)
getenv_default(e, name, default) ==
    IF e[name].t = "null" THEN PyStrVal(default) ELSE e[name]

\* whether float(s) accepts s: digits with at most one point, spaces around
float_ok(s) ==
    LET x == strip(s)
    IN  /\ \E i \in 1..Len(x) : x[i] \in DigitChars
        /\ \A i \in 1..Len(x) : x[i] \in DigitChars \cup {"."}
        /\ Cardinality({i \in 1..Len(x) : x[i] = "."}) <= 1

\* whether int(s) accepts s: digits, spaces around
int_ok(s) ==
    LET x == strip(s)
    IN  x # <<>> /\ \A i \in 1..Len(x) : x[i] \in DigitChars

\* The guard left out.
require_openrouter_api_key_Skipped(e) == Return(PyNone)

\* require_openrouter_api_key(): whether it raises
require_openrouter_api_key(e) ==
    IF ~Truthy(getenv(e, "OPENROUTER_API_KEY")) THEN Raise("RuntimeError")
    ELSE Return(PyNone)

\* OpenRouterConfig(): the api_key field, or the ValueError of float()/int()
OpenRouterConfig(e) ==
    IF ~float_ok(getenv_default(e, "AI_TEMPERATURE", <<"0", ".", "4">>).s)
    THEN Raise("ValueError")
    ELSE IF ~int_ok(getenv_default(e, "AI_MAX_TOKENS", <<"8", "0", "0">>).s)
    THEN Raise("ValueError")
    ELSE Return(PyStrVal(strip(getenv_default(e, "OPENROUTER_API_KEY", <<>>).s)))

\* "missing-openrouter-api-key"
PLACEHOLDER_KEY ==
    <<"m", "i", "s", "s", "i", "n", "g", "-", "o", "p", "e", "n", "r", "o",
    "u", "t", "e", "r", "-", "a", "p", "i", "-", "k", "e", "y">>

\* get_openai_client(): the api_key the client sends
get_openai_client(e) == Or(OpenRouterConfig(e).ret, PyStrVal(PLACEHOLDER_KEY)).s

\* chat_completion's return value for the content of the first choice
chat_completion(message_content) == strip(Or(message_content, PyStrVal(<<>>)).s)

\* --------------------------------------------------------------- tracing

\* what the tracing backend does when a call reaches it: its import fails,
\* start_as_current_trace / start_as_current_span raises, update_current_trace
\* / update_current_span raises, or all of it works
Backends == {"not_installed", "start_fails", "update_fails", "works"}

\* _opik_enabled(), lines 8-11
_opik_enabled(e) ==
    Truthy(Or(getenv(e, "OPIK_API_KEY"), getenv(e, "OTEL_EXPORTER_OTLP_ENDPOINT")))

\* with opik_trace(name, metadata=...): <body>, for a body that ends as
\* `body` once it runs.  Lines 25-27 and 29-34 yield without the backend;
\* line 36 starts the backend outside any try statement; lines 37-41 pass
\* over a failed metadata update; no yield sits in a try statement, so what
\* ends the body ends the with statement.
opik_trace(e, b, metadata, body) ==
    IF ~_opik_enabled(e) THEN body
    ELSE IF b = "not_installed" THEN body
    ELSE IF b = "start_fails" THEN Raise("OpikError")
    ELSE IF metadata /\ b = "update_fails" THEN body
    ELSE body

\* The yield inside try/except Exception: the error of the body is dropped.
opik_span_Suppressing(e, b, metadata, body) ==
    IF ~_opik_enabled(e) \/ b = "not_installed"
    THEN (IF body.kind = "raise" THEN Return(PyNone) ELSE body)
    ELSE IF b = "start_fails" THEN Raise("OpikError")
    ELSE IF body.kind = "raise" THEN Return(PyNone) ELSE body

\* with opik_span(name): <body>, lines 56-73, built as opik_trace is
opik_span(e, b, metadata, body) ==
    IF ~_opik_enabled(e) THEN body
    ELSE IF b = "not_installed" THEN body
    ELSE IF b = "start_fails" THEN Raise("OpikError")
    ELSE IF metadata /\ b = "update_fails" THEN body
    ELSE body

\* ------------------------------------------------------------------ inputs

\* json.dumps(v): the text an upstream model writes for the value v
RECURSIVE Dumps(_)
Dumps(v) ==
    CASE v.t = "null" -> <<"n", "u", "l", "l">>
      [] v.t = "bool" -> IF v.b THEN <<"t", "r", "u", "e">>
                                ELSE <<"f", "a", "l", "s", "e">>
      [] v.t = "int"  -> NatToChars(v.n)
      [] v.t = "str"  -> <<"\"">> \o v.s \o <<"\"">>
      [] v.t = "list" ->
            <<"[">> \o Join(<<",", " ">>, [i \in 1..Len(v.items) |-> Dumps(v.items[i])])
            \o <<"]">>
      [] v.t = "dict" ->
            <<"{">> \o
            Join(<<",", " ">>,
                 [i \in 1..Len(v.keys) |->
                     <<"\"">> \o v.keys[i] \o <<"\"", ":", " ">> \o Dumps(v.items[i])])
            \o <<"}">>

S_empty == PyStrVal(<<>>)
S_blank == PyStrVal(<<" ">>)
S_a     == PyStrVal(<<" ", "a", " ">>)
S_b     == PyStrVal(<<"b">>)
S_c     == PyStrVal(<<"c">>)
S_d     == PyStrVal(<<"d", " ", "e">>)
D_b     == PyDict(<<<<"b">>>>, <<PyInt(1)>>)

\* the entries every upstream list is built from, in every order
Entries == {S_empty, S_blank, S_a, PyInt(5)}
ListsUpTo(n) == UNION {[1..k -> Entries] : k \in 0..n}

\* further lists: blank and null entries, booleans, nested values
SpecialLists ==
    { <<PyNone, S_b>>, <<PyBool(TRUE), PyBool(FALSE)>>,
      <<PyList(<<S_b>>)>>, <<D_b, EmptyDict>>, <<S_b, S_c, S_d, S_a>>,
      <<S_blank, S_b, S_c, S_d>> }

\* values that are no list
ScalarValues ==
    { PyNone, PyBool(TRUE), PyBool(FALSE), PyInt(0), PyInt(5),
      S_empty, S_d, EmptyDict, D_b }

ListKeyValues ==
    {PyList(l) : l \in ListsUpTo(MaxItems) \cup SpecialLists} \cup ScalarValues

\* a key is absent, holds a value that is no list, or holds a usable list
FewValues == {PyInt(5), PyList(<<S_b, S_c, S_d, S_a>>)}
Absent == PyVal("absent", FALSE, 0, <<>>, <<>>, <<>>)

\* the object with the given keys, the Absent ones left out
RECURSIVE ObjectOf(_, _)
ObjectOf(ks, vs) ==
    IF ks = <<>> THEN EmptyDict
    ELSE LET rest == ObjectOf(SubSeq(ks, 1, Len(ks) - 1), SubSeq(vs, 1, Len(vs) - 1))
         IN  IF vs[Len(vs)] = Absent THEN rest
             ELSE DictPut(rest, ks[Len(ks)], vs[Len(vs)])

ObjectsOver(ks, full, few) ==
    {PyDict(<<ks[i]>>, <<v>>) : i \in 1..Len(ks), v \in full}
    \cup {ObjectOf(ks, vs) : vs \in [1..Len(ks) -> few \cup {Absent}]}

VerifiedValues ==
    { Absent, PyBool(TRUE), PyBool(FALSE), PyNone, PyInt(0), PyInt(5),
      PyStrVal(<<"n", "o">>), PyList(<<>>) }
FeedbackValues ==
    { Absent, S_empty, S_blank, PyNone, PyInt(0), PyInt(5), PyBool(FALSE),
      S_a, S_d, PyList(<<S_b>>), EmptyDict,
      PyStrVal(Rep("x", FEEDBACK_MAX)), PyStrVal(Rep("x", FEEDBACK_MAX + 1)),
      PyStrVal(<<" ">> \o Rep("x", FEEDBACK_MAX) \o <<" ">>),
      PyStrVal(<<"x">> \o Rep(" ", FEEDBACK_MAX) \o <<"y">>) }

Capabilities ==
    { "verify_goal_evidence", "get_ai_coaching", "decompose_yearly_goal",
      "refine_goal", "get_goal_tips", "plan_yearly_goals",
      "generate_yearly_report" }

\* the objects an upstream model may answer a capability's prompt with
Objects(c) ==
    CASE c = "verify_goal_evidence" ->
            {ObjectOf(<<K_verified, K_feedback>>, <<v, f>>) :
                v \in VerifiedValues, f \in FeedbackValues}
      [] c = "decompose_yearly_goal" ->
            ObjectsOver(<<K_daily, K_weekly, K_monthly>>, ListKeyValues, FewValues)
      [] c = "refine_goal" -> ObjectsOver(<<K_subgoals>>, ListKeyValues, FewValues)
      [] c = "get_goal_tips" -> ObjectsOver(<<K_tips>>, ListKeyValues, FewValues)
      [] c = "plan_yearly_goals" ->
            ObjectsOver(<<K_daily, K_weekly, K_monthly, K_yearly>>,
                        ListKeyValues, FewValues)
      [] OTHER -> {EmptyDict}

\* the objects that are also sent wrapped, fenced, doubled or cut short
Probes(c) ==
    CASE c = "verify_goal_evidence" ->
            {ObjectOf(<<K_verified, K_feedback>>, <<PyBool(TRUE), S_d>>)}
      [] c = "decompose_yearly_goal" ->
            {PyDict(<<K_daily>>, <<PyList(<<S_b, S_c>>)>>)}
      [] c = "refine_goal" -> {PyDict(<<K_subgoals>>, <<PyList(<<S_b, S_c>>)>>)}
      [] c = "get_goal_tips" -> {PyDict(<<K_tips>>, <<PyList(<<S_b, S_c>>)>>)}
      [] c = "plan_yearly_goals" -> {PyDict(<<K_yearly>>, <<PyList(<<S_b, S_c>>)>>)}
      [] OTHER -> {EmptyDict, D_b}

PROSE_BEFORE == <<"S", "u", "r", "e", ":", " ">>
PROSE_AFTER  == <<" ", "D", "o", "n", "e", ".">>
FENCE        == <<"~", "~", "~">>

\* the ways an answer departs from a bare JSON document
Wrappings(d) ==
    { PROSE_BEFORE \o d \o PROSE_AFTER,
      FENCE \o <<"j", "s", "o", "n", "\n">> \o d \o <<"\n">> \o FENCE,
      <<" ", "\n">> \o d \o <<"\n", " ">>,
      <<"[">> \o d \o <<"]">>,
      SubSeq(d, 1, Len(d) - 1),
      <<"{", "o", "k", "}", " ">> \o d,
      d \o <<" ", "{", "o", "k", "}">>,
      d \o <<" ">> \o d,
      PROSE_BEFORE \o d \o <<" ", "}">>,
      <<"}", " ">> \o SubSeq(d, 1, Len(d) - 1) }

\* texts that hold no JSON object
Garbage ==
    { <<>>, <<" ">>, <<"\n", " ", "\t">>, <<"n", "o", "t", " ", "j", "s", "o", "n">>,
      <<"5">>, <<"0", "5">>, <<"n", "u", "l", "l">>, <<"t", "r", "u", "e">>,
      <<"[", "]">>, <<"[", "1", ",", " ", "2", "]">>, <<"\"", "a", "\"">>,
      <<"\"", "{", "}", "\"">>, <<"{">>, <<"}">>, <<"}", " ", "{">>,
      <<"{", "}">>, <<" ", "{", " ", "}", " ">>, <<"{", "\"", "a", "\"", "}">>,
      <<"{", "\"", "a", "\"", ":", " ", "1", ",", "}">>,
      <<"{", "\"", "a", "\"", ":", " ", "1", ",", " ", "\"", "a", "\"", ":", " ", "2", "}">> }

\* every text a capability's request may be answered with
Texts(c) ==
    {Dumps(o) : o \in Objects(c)}
    \cup UNION {Wrappings(Dumps(o)) : o \in Probes(c)}
    \cup Garbage

\* the content of the first choice: a text, or None
Contents(c) == {PyStrVal(t) : t \in Texts(c)} \cup {PyNone}

AllTexts == UNION {Texts(c) : c \in Capabilities}

\* -------------------------------------------------------------- web layer
\* src/goals/views.py.  A text the user supplies (goal text, message, draft,
\* vision) is a sequence of characters, as above; a fixed sentence of the
\* source that is only joined and compared is kept as one element, written
\* in ASCII.

UPPER == <<"A", "B", "C", "D", "E", "F", "G", "H", "I", "J", "K", "L", "M", "N", "O", "P", "Q", "R", "S", "T", "U", "V", "W", "X", "Y", "Z">>
LOWER == <<"a", "b", "c", "d", "e", "f", "g", "h", "i", "j", "k", "l", "m", "n", "o", "p", "q", "r", "s", "t", "u", "v", "w", "x", "y", "z">>

\* str.lower()
LowerChar(c) ==
    IF \E i \in 1..Len(UPPER) : UPPER[i] = c
    THEN LOWER[CHOOSE i \in 1..Len(UPPER) : UPPER[i] = c]
    ELSE c
lower(s) == [i \in 1..Len(s) |-> LowerChar(s[i])]

\* k in s, for texts
Contains(s, k) == \E i \in 0..(Len(s) - Len(k)) : SubSeq(s, i + 1, i + Len(k)) = k

\* s.startswith(p)
startswith(s, p) == Len(s) >= Len(p) /\ SubSeq(s, 1, Len(p)) = p

\* s.rstrip()
rstrip(s) ==
    IF \A i \in 1..Len(s) : s[i] \in Whitespace THEN <<>>
    ELSE SubSeq(s, 1, SetMax({i \in 1..Len(s) : s[i] \notin Whitespace}))

\* "\n".join(lines), for a sequence of texts
JoinLines(lines) == Join(<<"\n">>, lines)

\* round(c / t * 100), Python rounding a tie to the even neighbour
RoundPercent(c, t) ==
    IF 2 * ((100 * c) % t) < t THEN (100 * c) \div t
    ELSE IF 2 * ((100 * c) % t) > t THEN (100 * c) \div t + 1
    ELSE IF ((100 * c) \div t) % 2 = 0 THEN (100 * c) \div t
    ELSE (100 * c) \div t + 1

\* date.isoformat(): the text of a day, one text per day
isoformat(d) == <<"day ">> \o NatToChars(d)

TF_Daily   == <<"D", "a", "i", "l", "y">>
TF_Weekly  == <<"W", "e", "e", "k", "l", "y">>
TF_Monthly == <<"M", "o", "n", "t", "h", "l", "y">>
TF_Yearly  == <<"Y", "e", "a", "r", "l", "y">>

\* coach_chat, lines 418-420: the keywords of the three moods
KW_OVERWHELMED ==
    { <<"o", "v", "e", "r", "w", "h", "e", "l", "m", "e", "d">>,
      <<"t", "o", "o", " ", "m", "u", "c", "h">>,
      <<"s", "t", "r", "e", "s", "s", "e", "d">>,
      <<"a", "n", "x", "i", "o", "u", "s">> }
KW_PROCRAST ==
    { <<"p", "r", "o", "c", "r", "a", "s", "t">>,
      <<"l", "a", "t", "e", "r">>,
      <<"c", "a", "n", "'", "t", " ", "s", "t", "a", "r", "t">>,
      <<"l", "a", "z", "y">>,
      <<"a", "v", "o", "i", "d">> }
KW_REVIEW ==
    { <<"r", "e", "v", "i", "e", "w">>,
      <<"s", "t", "r", "a", "t", "e", "g", "y">>,
      <<"p", "l", "a", "n">>,
      <<"y", "e", "a", "r">>,
      <<"r", "o", "a", "d", "m", "a", "p">> }

\* coach_chat, lines 422-426: the openers random.choice draws from
OPENERS ==
    << "Good. We're not negotiating with your future self today.",
       "Let's cut the noise and execute.",
       "I'm going to be direct because you said you want results." >>

\* refine_goal, lines 517-528
PFX_Complete == <<"C", "o", "m", "p", "l", "e", "t", "e">>
PFX_Finish   == <<"F", "i", "n", "i", "s", "h">>
PFX_Do       == <<"D", "o", " ">>
S_Complete   == <<"C", "o", "m", "p", "l", "e", "t", "e", ":", " ">>
S_Today      == <<"T", "o", "d", "a", "y", ":", " ">>
S_ThisWeek   == <<"T", "h", "i", "s", " ", "w", "e", "e", "k", ":", " ">>
S_ThisMonth  == <<"T", "h", "i", "s", " ", "m", "o", "n", "t", "h", ":", " ">>
S_ThisYear   == <<"T", "h", "i", "s", " ", "y", "e", "a", "r", ":", " ">>
S_By         == <<" ", "b", "y", " ">>
S_Deadline   ==
    <<" ", "(", "w", "i", "t", "h", " ", "a", " ", "c", "l", "e", "a", "r",
    " ", "d", "e", "a", "d", "l", "i", "n", "e", ")">>
S_Dots       == <<".", ".", ".">>

\* ---------------------------------------------------------- the Goal table

\* the day the first request arrives: the day the newest goal was created
FirstDay == 2

Users == {"ann", "bob"}
Anonymous == "anonymous"

\* a row of Goal as Goal.objects.create leaves it (models.py, lines 22-38),
\* created on day created_at
NewGoal(owner, text, timeframe, created_at) ==
    [ owner |-> owner, text |-> text, timeframe |-> timeframe,
      status |-> "pending", created_at |-> created_at, lesson |-> <<>>,
      tips |-> PyList(<<>>), evidence |-> "", verified |-> PyNone,
      ai_feedback |-> <<>>, reminder_time |-> 0 ]

T_run  == <<"r", "u", "n">>
T_doit == <<"D", "o", " ", "i", "t">>
T_late == <<"l", "a", "t", "e">>

\* a text one character longer than the 60 of line 224
T_long == Rep("x", 61)

\* the tables a request may find: no goal; a pending goal of each user; a
\* completed and a failed goal of one user; two pending goals of one user
GoalStores ==
    { <<>>,
      << NewGoal("ann", T_run, TF_Daily, 1), NewGoal("bob", T_long, TF_Yearly, 2) >>,
      << [NewGoal("ann", T_run, TF_Weekly, 1) EXCEPT !.status = "completed"],
         [NewGoal("ann", T_doit, TF_Monthly, 2) EXCEPT !.status = "failed",
                                                       !.lesson = T_late] >>,
      << NewGoal("ann", T_long, TF_Yearly, 1), NewGoal("ann", T_run, TF_Daily, 2) >> }

\* Goal.objects.filter(user=u), .filter(status=st): the ids of the rows
Mine(gs, u) == {i \in DOMAIN gs : gs[i].owner = u}
WithStatus(gs, S, st) == {i \in S : gs[i].status = st}

\* the ids of S newest first: Meta.ordering = ["-created_at"]
RECURSIVE Newest(_, _)
Newest(gs, S) ==
    IF S = {} THEN <<>>
    ELSE <<CHOOSE i \in S : \A j \in S : gs[j].created_at <= gs[i].created_at>>
         \o Newest(gs, S \ {CHOOSE i \in S : \A j \in S : gs[j].created_at <= gs[i].created_at})

\* -------------------------------------------------------------- responses

\* what a view answers with: a JSON document, a redirect, or the error page
\* the framework makes of a failed lookup, a refused method or an exception
\* that leaves the view
JsonResponse(data, status) == [status |-> status, body |-> data]
NoResponse  == [status |-> 0, body |-> PyNone]
Redirect    == [status |-> 302, body |-> PyNone]
NotFound    == [status |-> 404, body |-> PyNone]
NotAllowed  == [status |-> 405, body |-> PyNone]
ServerError == [status |-> 500, body |-> PyNone]

\* a fixed sentence as a str, a list of them, and {"error": msg} with 400
Txt(sentence) == PyStrVal(<<sentence>>)
TxtList(ss) == PyList([i \in 1..Len(ss) |-> Txt(ss[i])])
ErrorJson(msg) == JsonResponse(PyDict(<<<<"error">>>>, <<Txt(msg)>>), 400)

\* what serving a request leaves: the table, the response, and whether the
\* except branch built the response
Served(gs, resp, fb) == [goals |-> gs, response |-> resp, fellBack |-> fb]

\* the request: view, session user, method, goal id of the URL, the parsed
\* JSON body (Malformed when request.body is no JSON object), uploaded file
Malformed == PyVal("malformed", FALSE, 0, <<>>, <<>>, <<>>)
K_message   == <<"message">>
K_vision    == <<"vision">>
K_text      == <<"text">>
K_timeframe == <<"timeframe">>

\* (data.get(k) or ""): a str, unless the body holds another truthy value
Field(data, k) == Or(DictGet(data, k, PyNone), PyStrVal(<<>>))

\* ---------------------------------------------------------- upload_evidence

\* The heuristic leaving the evidence unverified.
_verify_evidence_heuristic_Unverified(goal) ==
    [goal EXCEPT !.verified = PyBool(FALSE), !.ai_feedback = <<>>]

\* _verify_evidence_heuristic, lines 217-226
_verify_evidence_heuristic(goal) ==
    [goal EXCEPT
        !.verified = PyBool(TRUE),
        !.ai_feedback =
            <<"Evidence logged for <<">> \o Slice(goal.text, 60)
            \o (IF Len(goal.text) > 60 THEN <<"...">> ELSE <<>>)
            \o <<">>. ", "Keep building momentum.">>]

\* lines 251-256, for the saved row
EvidenceJson(goal) ==
    JsonResponse(
        PyDict(<< <<"message">>, <<"evidence_url">>, <<"verified">>, <<"ai_feedback">> >>,
               << Txt("Evidence uploaded"),
                  IF goal.evidence # "" THEN PyStrVal(<<"/media/", goal.evidence>>)
                  ELSE PyNone,
                  goal.verified,
                  PyStrVal(goal.ai_feedback) >>),
        200)

\* upload_evidence leaving the status of the goal as it was.
EvidenceRow_KeepsStatus(goal, file, ai) ==
    IF ai.kind = "return"
    THEN [goal EXCEPT !.evidence = file,
                      !.verified = ai.ret.items[1],
                      !.ai_feedback = ai.ret.items[2].s]
    ELSE _verify_evidence_heuristic([goal EXCEPT !.evidence = file])

\* lines 236-250: the row after the try statement, ai being how
\* image_file_to_data_url and verify_goal_evidence ended
EvidenceRow(goal, file, ai) ==
    IF ai.kind = "return"
    THEN [goal EXCEPT !.evidence = file, !.status = "completed",
                      !.verified = ai.ret.items[1],
                      !.ai_feedback = ai.ret.items[2].s]
    ELSE _verify_evidence_heuristic(
            [goal EXCEPT !.evidence = file, !.status = "completed"])

EvidenceSaved(gs, id, row, fb) ==
    Served([gs EXCEPT ![id] = row], EvidenceJson(row), fb)

\* upload_evidence, lines 233-258, from the try statement on
upload_evidence(gs, req, ai) ==
    EvidenceSaved(gs, req.goal_id, EvidenceRow(gs[req.goal_id], req.file, ai),
                  ai.kind = "raise")

\* ------------------------------------------------------------ generate_plan

PlanFallback(vision) ==
    PyDict(<<K_daily, K_weekly, K_monthly, K_yearly>>,
           << TxtList(<< "Spend 25 minutes on the most important task",
                         "Review today's goals and pick one high-impact win",
                         "Log one proof (screenshot/photo/notes) for completed work" >>),
              TxtList(<< "Plan the week: choose 3 outcomes and schedule them",
                         "Review what worked and what didn't; adjust one habit" >>),
              TxtList(<< "Do a monthly retrospective and reset priorities",
                         "Ship one meaningful milestone toward the vision" >>),
              PyList(<< PyStrVal(<<"Define success metrics for: ">> \o Slice(vision, 80)
                                 \o (IF Len(vision) > 80 THEN S_Dots ELSE <<>>)),
                        Txt("Create a quarterly roadmap and review it every 4 weeks") >>) >>)

\* The except clause naming the configuration error only.
generate_plan_KeyErrorOnly(gs, req, ai) ==
    IF ai.kind = "return" THEN Served(gs, JsonResponse(ai.ret, 200), FALSE)
    ELSE IF ai.exc = "RuntimeError"
    THEN Served(gs, JsonResponse(PlanFallback(strip(Field(req.data, K_vision).s)), 200), TRUE)
    ELSE Served(gs, ServerError, FALSE)

\* generate_plan, lines 273-295
generate_plan(gs, req, ai) ==
    IF ai.kind = "return" THEN Served(gs, JsonResponse(ai.ret, 200), FALSE)
    ELSE Served(gs, JsonResponse(PlanFallback(strip(Field(req.data, K_vision).s)), 200), TRUE)

\* ------------------------------------------------------------ yearly_report

\* lines 321-345: the lines of the fallback narrative
ReportLines(first_str, nCompleted, nFailed, rate, highlights, lessons) ==
    << <<"From ">> \o first_str \o <<" to today, you completed ">>
         \o NatToChars(nCompleted) \o <<" goals and recorded ">>
         \o NatToChars(nFailed) \o <<" setbacks.">>,
       <<"Your execution success rate is ">> \o NatToChars(rate) \o <<"%.">>,
       <<>>,
       <<"Key milestones:">> >>
    \o (IF highlights # <<>>
        THEN [i \in 1..Len(highlights) |-> <<"- ">> \o highlights[i]]
        ELSE << <<"- No completed goals yet. Your next win will set the tone.">> >>)
    \o << <<>>, <<"Lessons learned:">> >>
    \o (IF lessons # <<>>
        THEN [i \in 1..Len(SelectSeq(lessons, LAMBDA l : l # <<>>)) |->
                <<"- ">> \o SelectSeq(lessons, LAMBDA l : l # <<>>)[i]]
        ELSE << <<"- No failures logged. Keep pressure-testing your plans to grow faster.">> >>)
    \o << <<>>,
          <<"Next focus:">>,
          <<"- Pick one daily goal you can complete every day for 7 days.">>,
          <<"- Add proof for completions to build momentum and accountability.">> >>

\* lines 302-312, for the ids of the user's goals, completed and failed
ReportOf(gs, mine, completed, failed, today) ==
    ReportLines(
        IF mine # {}
        THEN isoformat(gs[CHOOSE i \in mine : \A j \in mine :
                                gs[i].created_at <= gs[j].created_at].created_at)
        ELSE isoformat(today),
        Cardinality(completed),
        Cardinality(failed),
        IF Cardinality(completed) + Cardinality(failed) > 0
        THEN RoundPercent(Cardinality(completed),
                          Cardinality(completed) + Cardinality(failed))
        ELSE 0,
        [i \in 1..Len(Slice(Newest(gs, completed), 6)) |->
            gs[Newest(gs, completed)[i]].text],
        [i \in 1..Len(Slice(Newest(gs, failed), 4)) |->
            gs[Newest(gs, failed)[i]].lesson])

NarrativeJson(narrative) == JsonResponse(PyDict(<< <<"narrative">> >>, <<narrative>>), 200)

\* yearly_report, lines 302-345; today is timezone.now().date()
yearly_report(gs, req, ai, today) ==
    IF ai.kind = "return" THEN Served(gs, NarrativeJson(ai.ret), FALSE)
    ELSE Served(gs,
                NarrativeJson(PyStrVal(JoinLines(
                    ReportOf(gs, Mine(gs, req.user),
                             WithStatus(gs, Mine(gs, req.user), "completed"),
                             WithStatus(gs, Mine(gs, req.user), "failed"),
                             today)))),
                TRUE)

\* --------------------------------------------------------------- coach_chat

\* any(k in lower for k in keywords)
AnyIn(keywords, s) == \E k \in keywords : Contains(s, k)

\* lines 400 and 408: the pending goals newest first, at most 12, as lines
PendingLines(gs, pending) ==
    IF pending = <<>> THEN <<"- (no pending goals)">>
    ELSE JoinLines([i \in 1..Len(pending) |->
            <<"- [">> \o gs[pending[i]].timeframe \o <<"] ">> \o gs[pending[i]].text])

\* lines 476-480
FocusBlock(gs, top3) ==
    IF top3 # <<>>
    THEN JoinLines([i \in 1..Len(top3) |->
            <<"- **">> \o gs[top3[i]].text \o <<"** (">> \o gs[top3[i]].timeframe \o <<")">>])
    ELSE <<"- **Add 1 daily goal** you can finish today.">>

\* lines 417-492: the reply of the except branch
CoachReply(lowered, opener, pending_lines, discipline, focus_block) ==
    IF AnyIn(KW_OVERWHELMED, lowered)
    THEN <<opener, "\n\n", "**You're overwhelmed because your brain is trying to hold the whole map at once.**\n\n",
           "## Do this in the next 10 minutes\n",
           "1. Pick **one** pending goal that moves the needle.\n",
           "2. Break it into a **2-minute start** (open the file, put shoes on, write first sentence).\n",
           "3. Set a timer for **12 minutes**. No perfection.\n\n",
           "## Your current pending goals\n">>
         \o pending_lines \o <<"\n\n", "**Discipline score right now:** ">>
         \o NatToChars(discipline)
         \o <<"%.\n", "Reply with: **(1)** which goal you'll do first and **(2)** your 2-minute start.">>
    ELSE IF AnyIn(KW_PROCRAST, lowered)
    THEN <<opener, "\n\n", "**Procrastination is usually unclear next steps + low immediate reward. Fix both.**\n\n",
           "## Protocol\n",
           "- Choose the smallest win that still counts.\n",
           "- Make the first step **ridiculously easy**.\n",
           "- Timebox: **15 minutes**, then reassess.\n\n",
           "## Pick one (A/B/C)\n",
           "A) 15 minutes on your hardest goal\n",
           "B) 15 minutes on your easiest goal (momentum)\n",
           "C) 5 minutes planning + 10 minutes doing\n\n",
           "## Pending goals\n">>
         \o pending_lines
         \o <<"\n\n", "Tell me A/B/C and the goal you're committing to.">>
    ELSE IF AnyIn(KW_REVIEW, lowered)
    THEN <<opener, "\n\n", "## Quick yearly strategy (no fluff)\n",
           "1. **One North Star**: what must be true by year-end?\n",
           "2. **Quarterly bets**: 3 projects max.\n",
           "3. **Weekly cadence**: 1 review + 3 deep-work blocks.\n",
           "4. **Daily minimum**: a 25-minute non-negotiable.\n\n",
           "## What you're actually on the hook for right now\n">>
         \o pending_lines \o <<"\n\n", "**Current execution score:** ">>
         \o NatToChars(discipline)
         \o <<"% based on finishes.\n",
              "Reply with your North Star in one sentence and I'll convert it into quarterly bets.">>
    ELSE <<opener, "\n\n", "## Your next move\n",
           "Pick **one** item and finish it today. No heroics, just completion.\n\n",
           "## Recommended focus\n">>
         \o focus_block
         \o <<"\n\n", "## Rule\n",
              "**Start before you feel ready.** Set a 12-15 minute timer and begin.\n\n",
              "If you want, tell me what you're stuck on and I'll give you the smallest next step.">>

\* lines 399-408, for the ids of the user's pending goals newest first
CoachFallback(gs, mine, pending, lowered, opener) ==
    CoachReply(lowered, opener,
               PendingLines(gs, Slice(pending, 12)),
               IF Cardinality(WithStatus(gs, mine, "completed"))
                    + Cardinality(WithStatus(gs, mine, "failed")) > 0
               THEN RoundPercent(Cardinality(WithStatus(gs, mine, "completed")),
                                 Cardinality(WithStatus(gs, mine, "completed"))
                                    + Cardinality(WithStatus(gs, mine, "failed")))
               ELSE 100,
               FocusBlock(gs, Slice(Slice(pending, 12), 3)))

ReplyJson(reply) == JsonResponse(PyDict(<< <<"reply">> >>, <<reply>>), 200)

\* coach_chat, lines 399-492; choice is what random.choice draws (1..3)
coach_chat(gs, req, ai, choice) ==
    IF ai.kind = "return" THEN Served(gs, ReplyJson(ai.ret), FALSE)
    ELSE Served(gs,
                ReplyJson(PyStrVal(CoachFallback(
                    gs, Mine(gs, req.user),
                    Newest(gs, WithStatus(gs, Mine(gs, req.user), "pending")),
                    lower(strip(Field(req.data, K_message).s)),
                    OPENERS[choice]))),
                TRUE)

\* -------------------------------------------------------------- refine_goal

\* lines 514-528: the suggestions in the order they are appended
Suggestions(text, timeframe) ==
    (IF Len(text) > 60
     THEN <<rstrip(Slice(text, 80)) \o (IF Len(text) > 80 THEN S_Dots ELSE <<>>)>>
     ELSE <<>>)
    \o <<IF ~(startswith(text, PFX_Complete) \/ startswith(text, PFX_Finish)
               \/ startswith(text, PFX_Do))
         THEN S_Complete \o text ELSE text>>
    \o (IF timeframe = PyStrVal(TF_Daily) THEN <<S_Today \o text>>
        ELSE IF timeframe = PyStrVal(TF_Weekly) THEN <<S_ThisWeek \o text>>
        ELSE IF timeframe = PyStrVal(TF_Monthly) THEN <<S_ThisMonth \o text>>
        ELSE IF timeframe = PyStrVal(TF_Yearly) THEN <<S_ThisYear \o text>>
        ELSE <<>>)
    \o (IF ~Contains(lower(text), S_By) /\ ~Contains(text, S_By)
        THEN <<text \o S_Deadline>> ELSE <<>>)

\* lines 529-534: the positions kept, those of the first occurrence of each
\* non-empty suggestion of at most 500 characters
KeptAt(ss) ==
    {i \in 1..Len(ss) :
        /\ ss[i] # <<>>
        /\ Len(ss[i]) <= 500
        /\ \A j \in 1..(i - 1) : ss[j] # ss[i]}

\* lines 529-535
Deduplicated(ss) ==
    Slice([j \in 1..Cardinality(KeptAt(ss)) |->
              PyStrVal(ss[CHOOSE i \in KeptAt(ss) :
                            Cardinality({k \in KeptAt(ss) : k <= i}) = j])], 5)

SuggestionsJson(suggestions) ==
    JsonResponse(PyDict(<< <<"suggestions">> >>, <<suggestions>>), 200)

\* refine_goal of views.py, lines 508-535
views_refine_goal(gs, req, ai) ==
    IF ai.kind = "return" THEN Served(gs, SuggestionsJson(ai.ret), FALSE)
    ELSE Served(gs,
                SuggestionsJson(PyList(Deduplicated(Suggestions(
                    strip(Field(req.data, K_text).s),
                    DictGet(req.data, K_timeframe, PyStrVal(TF_Daily)))))),
                TRUE)

\* ------------------------------------------------------- generate_goal_tips

\* lines 555-569: the heuristic tips for a timeframe
HeuristicTips(tf) ==
    PyList(
        (IF tf = TF_Yearly
         THEN <<Txt("Split into quarterly milestones and review each month.")>>
         ELSE IF tf = TF_Monthly
         THEN <<Txt("Pick one week to focus on this; block 2-3 deep-work sessions.")>>
         ELSE IF tf = TF_Weekly
         THEN <<Txt("Choose one day and one time slot; protect it.")>>
         ELSE <<>>)
        \o << Txt("Break this into one 15-minute block today."),
              PyStrVal(<<"Define the smallest possible win for this ">> \o lower(tf)
                       \o <<" goal.">>),
              Txt("Schedule a specific time; put it in your calendar."),
              Txt("Remove one distraction before you start."),
              Txt("After finishing, write one sentence: what was the main blocker?") >>)

TipsSaved(gs, id, tips, fb) ==
    Served([gs EXCEPT ![id].tips = tips],
           JsonResponse(PyDict(<<K_tips>>, <<tips>>), 200), fb)

\* generate_goal_tips, lines 548-572
generate_goal_tips(gs, req, ai) ==
    IF ai.kind = "return" THEN TipsSaved(gs, req.goal_id, ai.ret, FALSE)
    ELSE TipsSaved(gs, req.goal_id, HeuristicTips(gs[req.goal_id].timeframe), TRUE)

\* --------------------------------------------------------- goal endpoints
\* add_goal, toggle_goal, delete_goal, mark_failed, update_reminder and
\* snooze_alarm of src/goals/views.py, and upload_evidence and
\* generate_goal_tips as they run next to other requests: a view reads its
\* row with get_object_or_404 and writes it with save() later, and another
\* request may be served in between.  reminder_time is 0 for None and a
\* number of minutes otherwise.

\* no row: nothing was read or written
NoRow == [NewGoal(Anonymous, <<>>, <<>>, 0) EXCEPT !.status = "none"]

\* the row of the table, NoRow once it is deleted
RowAt(gs, id) == IF id \in DOMAIN gs THEN gs[id] ELSE NoRow

\* the table with the row written under id, and with the row deleted
Put(gs, id, row) == [i \in DOMAIN gs \cup {id} |-> IF i = id THEN row ELSE gs[i]]
Delete(gs, id) == [i \in DOMAIN gs \ {id} |-> gs[i]]

\* What the second half of a view leaves: the table, the row written (NoRow:
\* none), the response, whether a capability was called.
Wrote(gs, saved, resp, called) ==
    [goals |-> gs, saved |-> saved, response |-> resp, called |-> called]

\* goal.save(): the whole row is written; a row deleted meanwhile is
\* inserted again
FullSave(gs, id, row, resp, called) ==
    Wrote(Put(gs, id, row), row, resp, called)

\* goal.save(update_fields=[...]): row is the row of the table with the
\* named fields set; DatabaseError when the row is deleted meanwhile
SaveFields(gs, id, row, resp, failed, called) ==
    IF id \in DOMAIN gs
    THEN Wrote(Put(gs, id, row), row, resp, called)
    ELSE Wrote(gs, NoRow, failed, called)

MessageJson(msg) == JsonResponse(PyDict(<< <<"message">> >>, <<Txt(msg)>>), 200)

\* toggle_goal with the reset keeping evidence, verified and ai_feedback.
ToggleRow_KeepsEvidence(goal) ==
    IF goal.status = "pending"
    THEN [goal EXCEPT !.status = "completed", !.reminder_time = 0]
    ELSE [goal EXCEPT !.status = "pending"]

\* toggle_goal, lines 178-188: the row after the if statement
ToggleRow(goal) ==
    IF goal.status = "pending"
    THEN [goal EXCEPT !.status = "completed", !.reminder_time = 0]
    ELSE [goal EXCEPT !.status = "pending", !.evidence = "",
                      !.verified = PyNone, !.ai_feedback = <<>>]

\* toggle_goal setting every goal to completed, never back to pending.
toggle_goal_CompleteOnly(gs, req, goal) ==
    FullSave(gs, req.goal_id,
             [goal EXCEPT !.status = "completed", !.reminder_time = 0],
             MessageJson("Goal completed!"), FALSE)

\* toggle_goal, lines 174-189, from the row read
toggle_goal(gs, req, goal) ==
    FullSave(gs, req.goal_id, ToggleRow(goal),
             IF goal.status = "pending"
             THEN JsonResponse(PyDict(<< <<"status">>, <<"message">> >>,
                                      <<Txt("completed"), Txt("Goal completed!")>>), 200)
             ELSE JsonResponse(PyDict(<< <<"status">>, <<"message">> >>,
                                      <<Txt("pending"), Txt("Goal reset to pending")>>), 200),
             FALSE)

\* delete_goal, lines 194-198, from the row read
delete_goal(gs, req, goal) ==
    Wrote(Delete(gs, req.goal_id), NoRow,
          MessageJson("Goal deleted"), FALSE)

K_lesson == <<"lesson">>
LESSON_DEFAULT == <<"Timing not right.">>

\* mark_failed, lines 205-214, from the row read
mark_failed(gs, req, goal) ==
    FullSave(gs, req.goal_id,
             [goal EXCEPT !.status = "failed",
                          !.lesson = DictGet(req.data, K_lesson, PyStrVal(LESSON_DEFAULT)).s,
                          !.reminder_time = 0],
             MessageJson("Goal marked as failed"), FALSE)

K_reminder_time == <<"reminder_time">>
K_minutes == <<"minutes">>
SNOOZE_DEFAULT == 10
SNOOZE_MIN == 1
SNOOZE_MAX == 1440

\* datetime.isoformat() and datetime.fromisoformat(): one text per point of
\* time; 0 stands for a text that is no ISO date
isoformat_dt(t) == <<"T">> \o NatToChars(t)
fromisoformat(s) ==
    IF Len(s) > 1 /\ s[1] = "T" /\ \A i \in 2..Len(s) : s[i] \in DigitChars
    THEN CharsToNat(SubSeq(s, 2, Len(s))) ELSE 0

ReminderJson(msg, t) ==
    JsonResponse(PyDict(<< <<"message">>, K_reminder_time >>,
                        <<Txt(msg), PyStrVal(isoformat_dt(t))>>), 200)

\* update_reminder, lines 353-370, from the row read
update_reminder(gs, req, goal) ==
    IF req.data = Malformed THEN Wrote(gs, NoRow, ServerError, FALSE)
    ELSE IF ~Truthy(DictGet(req.data, K_reminder_time, PyNone))
    THEN SaveFields(gs, req.goal_id,
                    [RowAt(gs, req.goal_id) EXCEPT !.reminder_time = 0],
                    MessageJson("Reminder cleared"), ServerError, FALSE)
    ELSE IF \/ DictGet(req.data, K_reminder_time, PyNone).t # "str"
            \/ fromisoformat(DictGet(req.data, K_reminder_time, PyNone).s) = 0
    THEN Wrote(gs, NoRow, ErrorJson("Invalid reminder_time"), FALSE)
    ELSE SaveFields(gs, req.goal_id,
                    [RowAt(gs, req.goal_id) EXCEPT
                        !.reminder_time = fromisoformat(DictGet(req.data, K_reminder_time, PyNone).s)],
                    ReminderJson("Reminder set",
                                 fromisoformat(DictGet(req.data, K_reminder_time, PyNone).s)),
                    ErrorJson("Invalid reminder_time"), FALSE)

\* int(x) of line 380: of an int, or of a str of digits
IntOf(v) ==
    IF v.t = "int" THEN Return(v)
    ELSE IF v.t = "str" /\ v.s # <<>> /\ \A i \in 1..Len(v.s) : v.s[i] \in DigitChars
    THEN Return(PyInt(CharsToNat(v.s)))
    ELSE Raise(IF v.t = "str" THEN "ValueError" ELSE "TypeError")

\* max(1, min(minutes, 1440))
Clamp(n) == IF n < SNOOZE_MIN THEN SNOOZE_MIN ELSE IF n > SNOOZE_MAX THEN SNOOZE_MAX ELSE n

\* snooze_alarm, lines 378-384, from the row read; now is timezone.now()
snooze_alarm(gs, req, goal, now) ==
    IF req.data = Malformed THEN Wrote(gs, NoRow, ServerError, FALSE)
    ELSE IF IntOf(DictGet(req.data, K_minutes, PyInt(SNOOZE_DEFAULT))).kind = "raise"
    THEN Wrote(gs, NoRow, ServerError, FALSE)
    ELSE SaveFields(gs, req.goal_id,
                    [RowAt(gs, req.goal_id) EXCEPT !.reminder_time =
                        now + Clamp(IntOf(DictGet(req.data, K_minutes, PyInt(SNOOZE_DEFAULT))).ret.n)],
                    ReminderJson("Snoozed",
                        now + Clamp(IntOf(DictGet(req.data, K_minutes, PyInt(SNOOZE_DEFAULT))).ret.n)),
                    ServerError, FALSE)

\* upload_evidence, lines 236-256, from the row read; ai is how
\* image_file_to_data_url and verify_goal_evidence ended
upload_evidence_saving(gs, req, goal, ai) ==
    FullSave(gs, req.goal_id, EvidenceRow(goal, req.file, ai),
             EvidenceJson(EvidenceRow(goal, req.file, ai)), TRUE)

\* generate_goal_tips writing the whole row it read.
generate_goal_tips_saving_WholeRow(gs, req, goal, ai) ==
    FullSave(gs, req.goal_id,
             [goal EXCEPT !.tips = IF ai.kind = "return" THEN ai.ret
                                   ELSE HeuristicTips(goal.timeframe)],
             JsonResponse(PyDict(<<K_tips>>,
                                 <<IF ai.kind = "return" THEN ai.ret
                                   ELSE HeuristicTips(goal.timeframe)>>), 200),
             TRUE)

\* generate_goal_tips, lines 548-572, from the row read: the tips of the
\* capability, the heuristic ones when it raised, written to the tips field
generate_goal_tips_saving(gs, req, goal, ai) ==
    SaveFields(gs, req.goal_id,
               [RowAt(gs, req.goal_id) EXCEPT
                    !.tips = IF ai.kind = "return" THEN ai.ret
                             ELSE HeuristicTips(goal.timeframe)],
               JsonResponse(PyDict(<<K_tips>>,
                                   <<IF ai.kind = "return" THEN ai.ret
                                     ELSE HeuristicTips(goal.timeframe)>>), 200),
               ServerError, TRUE)

\* add_goal, lines 148-169; today is the day of timezone.now()
add_goal(gs, req, id, today) ==
    IF req.data = Malformed THEN Wrote(gs, NoRow, ServerError, FALSE)
    ELSE IF DictGet(req.data, K_text, PyStrVal(<<>>)).t # "str"
    THEN Wrote(gs, NoRow, ServerError, FALSE)
    ELSE IF strip(DictGet(req.data, K_text, PyStrVal(<<>>)).s) = <<>>
    THEN Wrote(gs, NoRow, ErrorJson("Goal text is required"), FALSE)
    ELSE Wrote(Put(gs, id,
                   NewGoal(req.user, strip(DictGet(req.data, K_text, PyStrVal(<<>>)).s),
                           DictGet(req.data, K_timeframe, PyStrVal(TF_Daily)).s, today)),
               NewGoal(req.user, strip(DictGet(req.data, K_text, PyStrVal(<<>>)).s),
                       DictGet(req.data, K_timeframe, PyStrVal(TF_Daily)).s, today),
               JsonResponse(
                   PyDict(<< <<"id">>, K_text, K_timeframe, <<"status">>, <<"created_at">> >>,
                          << PyInt(id),
                             PyStrVal(strip(DictGet(req.data, K_text, PyStrVal(<<>>)).s)),
                             DictGet(req.data, K_timeframe, PyStrVal(TF_Daily)),
                             Txt("pending"),
                             PyStrVal(isoformat(today)) >>), 200),
               FALSE)

\* ------------------------------------------------------------- the accounts

\* email addresses and passwords typed into the forms; the settings with
\* the password validators are not part of src/account, the passwords here
\* are ones no validator refuses
E_ann == <<"a", "@", "x", ".", "y">>
E_bob == <<"b", "@", "x", ".", "y">>
E_bad == <<"a", "x">>
N_Ann == <<"A", "n", "n">>
Passwords == {"pw1", "pw2"}

\* request.user of a session nobody is signed in to
NoUser == <<>>

\* a User row (account/models.py): email is the login identifier
UserRow(email, password, first_name) ==
    [email |-> email, password |-> password, first_name |-> first_name]

\* User.objects.filter(email=email).exists(), and the row
Registered(accs, email) == \E u \in accs : u.email = email
RowOf(accs, email) == CHOOSE u \in accs : u.email = email

\* forms.EmailField: one "@", a local part, and a domain with a dot inside
IsEmail(s) ==
    /\ Cardinality({i \in 1..Len(s) : s[i] = "@"}) = 1
    /\ s[1] # "@"
    /\ \E d \in 1..Len(s) :
          /\ s[d] = "."
          /\ d < Len(s)
          /\ \E a \in 1..(d - 2) : s[a] = "@"

\* email.split("@")[0]
LocalPart(email) ==
    IF \E i \in 1..Len(email) : email[i] = "@"
    THEN SubSeq(email, 1, SetMin({i \in 1..Len(email) : email[i] = "@"}) - 1)
    ELSE email

\* (user.first_name or "").strip() or user.email.split("@")[0]
DisplayName(user) ==
    IF strip(user.first_name) # <<>> THEN strip(user.first_name) ELSE LocalPart(user.email)

\* request.POST of the two forms; a field left out is the empty text
RegisterPost(first_name, email, password1, password2) ==
    [first_name |-> first_name, email |-> email, password1 |-> password1,
     password2 |-> password2, password |-> "", next |-> <<>>]
LoginPost(email, password, next) ==
    [first_name |-> <<>>, email |-> email, password1 |-> "", password2 |-> "",
     password |-> password, next |-> next]
NoPost == LoginPost(<<>>, "", <<>>)

\* a request to an account view: method, POST data, the next of the query
AccountReq(view, method, post, next) ==
    [view |-> view, method |-> method, post |-> post, next |-> next]

\* responses: render(request, template, ...) and redirect(to)
Render(template) == [status |-> 200, template |-> template, location |-> <<>>]
RedirectTo(to) == [status |-> 302, template |-> "", location |-> to]
LANDING == <<"landing">>
LOGIN_URL == <<"login">>

\* What a view leaves: the User table, the user of the session, the
\* response, what became of the form ("none": never constructed, "unbound",
\* "invalid", "valid") and the message added for the next page.
Handled(accs, sess, resp, form, message) ==
    [accounts |-> accs, session |-> sess, response |-> resp, form |-> form,
     message |-> message]

\* _get_safe_next, lines 13-23; url_has_allowed_host_and_scheme refuses a
\* path whose second character makes the browser read a host
_get_safe_next(post_next, get_next) ==
    LET next_url == IF post_next # <<>> THEN post_next
                    ELSE IF get_next # <<>> THEN get_next ELSE LANDING
    IN  IF next_url = LANDING \/ next_url = <<>> THEN LANDING
        ELSE IF ~startswith(next_url, <<"/">>) THEN LANDING
        ELSE IF Len(next_url) > 1 /\ next_url[2] \in {"/", "\\"} THEN LANDING
        ELSE next_url

\* UserRegistrationForm(request.POST).is_valid(), forms.py 11-58
RegistrationValid(accs, post) ==
    /\ strip(post.first_name) # <<>>
    /\ Len(strip(post.first_name)) <= 150
    /\ IsEmail(strip(post.email))
    /\ ~Registered(accs, strip(post.email))
    /\ post.password1 # ""
    /\ post.password2 = post.password1

\* UserLoginForm(request.POST).is_valid(), forms.py 61-75
LoginValid(post) == IsEmail(strip(post.email)) /\ post.password # ""

\* authenticate(request, username=email, password=password): the row or none
authenticate(accs, email, password) ==
    {u \in accs : u.email = email /\ u.password = password}

\* register_view handling the form of an authenticated session as well.
register_view_NoRedirect(accs, sess, req) ==
    IF req.method = "POST"
    THEN IF RegistrationValid(accs, req.post)
         THEN Handled(accs \cup {UserRow(strip(req.post.email), req.post.password1,
                                         strip(req.post.first_name))},
                      strip(req.post.email), RedirectTo(LANDING), "valid",
                      <<"Welcome to Goaly, ">> \o strip(req.post.first_name)
                      \o <<"! Your account has been created successfully.">>)
         ELSE Handled(accs, sess, Render("account/register.html"), "invalid",
                      <<"Please correct the errors below.">>)
    ELSE Handled(accs, sess, Render("account/register.html"), "unbound", <<>>)

\* register_view, lines 26-47
register_view(accs, sess, req) ==
    IF sess # NoUser
    THEN Handled(accs, sess, RedirectTo(LANDING), "none", <<>>)
    ELSE IF req.method = "POST"
    THEN IF RegistrationValid(accs, req.post)
         THEN Handled(accs \cup {UserRow(strip(req.post.email), req.post.password1,
                                         strip(req.post.first_name))},
                      strip(req.post.email), RedirectTo(LANDING), "valid",
                      <<"Welcome to Goaly, ">>
                      \o DisplayName(UserRow(strip(req.post.email), req.post.password1,
                                             strip(req.post.first_name)))
                      \o <<"! Your account has been created successfully.">>)
         ELSE Handled(accs, sess, Render("account/register.html"), "invalid",
                      <<"Please correct the errors below.">>)
    ELSE Handled(accs, sess, Render("account/register.html"), "unbound", <<>>)

\* lines 55-70: the POST branch of login_view
LoginPosted(accs, sess, req) ==
    IF ~LoginValid(req.post)
    THEN Handled(accs, sess, Render("account/login.html"), "invalid",
                 <<"Please correct the errors below.">>)
    ELSE IF authenticate(accs, strip(req.post.email), req.post.password) = {}
    THEN Handled(accs, sess, Render("account/login.html"), "valid",
                 <<"Invalid email or password.">>)
    ELSE Handled(accs, strip(req.post.email),
                 RedirectTo(_get_safe_next(req.post.next, req.next)), "valid",
                 <<"Welcome back, ">>
                 \o DisplayName(RowOf(accs, strip(req.post.email))) \o <<"!">>)

\* login_view handling the form of an authenticated session as well.
login_view_NoRedirect(accs, sess, req) ==
    IF req.method = "POST" THEN LoginPosted(accs, sess, req)
    ELSE Handled(accs, sess, Render("account/login.html"), "unbound", <<>>)

\* login_view, lines 50-75
login_view(accs, sess, req) ==
    IF sess # NoUser
    THEN Handled(accs, sess, RedirectTo(LANDING), "none", <<>>)
    ELSE IF req.method = "POST" THEN LoginPosted(accs, sess, req)
    ELSE Handled(accs, sess, Render("account/login.html"), "unbound", <<>>)

\* logout_view redirecting without logout(request).
logout_view_NoLogout(accs, sess, req) ==
    IF sess = NoUser
    THEN Handled(accs, sess, RedirectTo(LOGIN_URL), "none", <<>>)
    ELSE Handled(accs, sess, RedirectTo(LANDING), "none",
                 <<"You have been logged out successfully.">>)

\* logout_view, lines 78-83; login_required sends a session without a user
\* to the login page
logout_view(accs, sess, req) ==
    IF sess = NoUser
    THEN Handled(accs, sess, RedirectTo(LOGIN_URL), "none", <<>>)
    ELSE Handled(accs, NoUser, RedirectTo(LANDING), "none",
                 <<"You have been logged out successfully.">>)

\* the requests sent to the three views
NextTexts == { <<>>, <<"/", "d", "/">>, <<"/", "/", "e", ".", "y">>, <<"h", ":", "/", "/", "e">> }

RegisterRequests ==
    {AccountReq("register", "GET", NoPost, <<>>)}
    \cup {AccountReq("register", "POST", RegisterPost(f, e, p1, p2), <<>>) :
            f \in {<<>>, <<" ">>, N_Ann}, e \in {<<>>, E_bad, E_ann, E_bob},
            p1 \in Passwords \cup {""}, p2 \in Passwords}

LoginRequests ==
    {AccountReq("login", "GET", NoPost, n) : n \in NextTexts}
    \cup {AccountReq("login", "POST", LoginPost(e, p, n), <<>>) :
            e \in {<<>>, E_bad, E_ann, E_bob}, p \in Passwords \cup {""}, n \in NextTexts}
    \cup {AccountReq("login", "POST", LoginPost(E_ann, "pw1", <<>>), n) : n \in NextTexts}

LogoutRequests == {AccountReq("logout", m, NoPost, <<>>) : m \in {"GET", "POST"}}

\* the last request served, as the view found the table and the session,
\* and what it left
NoExchange ==
    [request |-> AccountReq("", "", NoPost, <<>>), accounts |-> {},
     session |-> NoUser, response |-> [status |-> 0, template |-> "", location |-> <<>>],
     form |-> "none", message |-> <<>>]

Exchange(req, accs, sess, h) ==
    [request |-> req, accounts |-> accs, session |-> sess,
     response |-> h.response, form |-> h.form, message |-> h.message]

\* The client of test_register_login_logout_flow: it registers, logs out,
\* and logs in with the email and password it registered; other requests
\* may come in between.
NoFlow == [stage |-> "start", email |-> NoUser, password |-> ""]

FlowStep(f, req, sess, h) ==
    IF f.stage = "start" /\ req.view = "register" /\ h.form = "valid"
    THEN [stage |-> "registered", email |-> strip(req.post.email),
          password |-> req.post.password1]
    ELSE IF f.stage = "registered" /\ req.view = "logout"
    THEN [f EXCEPT !.stage = "loggedout"]
    ELSE IF /\ f.stage = "loggedout"
            /\ req.view = "login"
            /\ req.method = "POST"
            /\ sess = NoUser
            /\ strip(req.post.email) = f.email
            /\ req.post.password = f.password
    THEN [f EXCEPT !.stage = "loggedin"]
    ELSE f

\* ------------------------------------------------------------------- state

VARIABLES
    env,        \* the process environment: variable name -> None or a string
    pc,         \* "idle", "transport" (request sent, no answer yet), "done"
    cap,        \* the capability function being run
    calls,      \* requests the running capability call has sent
    authKey,    \* the api key the request carried
    content,    \* message content of the first choice of the response
    text,       \* what chat_completion returned
    obj,        \* how _best_effort_json_loads(text) ended, where it is called
    outcome,    \* how the capability call ended
    opik,       \* what the tracing backend does in this call ("unused": not reached)
    fault,      \* the error the transport raised in this call, "" if none
    arg,        \* the argument of a direct _best_effort_json_loads call
    coerced,    \* how that call ended
    goals,      \* the Goal table: id -> row
    runs,       \* the requests served so far
    wpc,        \* "idle", "calling" (the view waits for a capability), "responded"
    request,    \* the request being served
    before,     \* the Goal table as the request found it
    ai,         \* how the capability call of the view ended
    response,   \* the response of the view
    fellBack,   \* whether the except branch of the view built the response
    first,      \* an earlier run kept for comparison: request, table, response
    accounts,   \* the User table: a set of rows
    session,    \* the email the session is authenticated as, or NoUser
    last,       \* the last request to an account view and what it left
    flow,       \* how far the client is in register, logout, login, and with
                \* which email and password it registered
    inflight,   \* per worker: the goal request it serves, the row it read,
                \* the row it wrote, its response
    nextId,     \* the id the next Goal row gets
    taken       \* the number of goal requests taken so far

aiVars == <<env, pc, cap, calls, authKey, content, text, obj, outcome, opik, fault>>
coerceVars == <<arg, coerced>>
webVars == <<goals, runs, wpc, request, before, ai, response, fellBack, first>>
acctVars == <<accounts, session, last, flow>>
goalVars == <<inflight, nextId, taken>>
vars == <<aiVars, coerceVars, webVars, acctVars, goalVars>>

EnvNames ==
    { "OPENROUTER_API_KEY", "AI_TEMPERATURE", "AI_MAX_TOKENS",
      "OPIK_API_KEY", "OTEL_EXPORTER_OTLP_ENDPOINT" }

EnvValues(name) ==
    CASE name = "OPENROUTER_API_KEY" ->
            {PyNone, S_empty, S_blank, PyStrVal(<<"s", "k", "-", "1">>)}
      [] name = "AI_TEMPERATURE" -> {PyNone, PyStrVal(<<"h", "o", "t">>)}
      [] name = "AI_MAX_TOKENS" -> {PyNone, PyStrVal(<<"8", ".", "5">>)}
      [] name = "OPIK_API_KEY" -> {PyNone, PyStrVal(<<"o", "k">>)}
      [] name = "OTEL_EXPORTER_OTLP_ENDPOINT" -> {PyNone, PyStrVal(<<"u">>)}

NoOutcome == [kind |-> "none", exc |-> "", ret |-> PyNone]

Idle ==
    /\ pc = "idle"
    /\ cap = "none"
    /\ calls = 0
    /\ authKey = <<>>
    /\ content = PyNone
    /\ text = <<>>
    /\ obj = NoOutcome
    /\ outcome = NoOutcome
    /\ opik = "unused"
    /\ fault = ""

\* no request is being served and none is kept for comparison
NoRequest ==
    [view |-> "none", user |-> Anonymous, method |-> "GET", goal_id |-> 0,
     data |-> EmptyDict, file |-> ""]
NoRun == [request |-> NoRequest, before |-> <<>>, response |-> NoResponse]

WebIdle ==
    /\ wpc = "idle"
    /\ request = NoRequest
    /\ before = <<>>
    /\ ai = NoOutcome
    /\ response = NoResponse
    /\ fellBack = FALSE

WebInit ==
    /\ goals = <<>>
    /\ runs = 0
    /\ WebIdle
    /\ first = NoRun

AcctInit ==
    /\ accounts = {}
    /\ session = NoUser
    /\ last = NoExchange
    /\ flow = NoFlow

\* the workers of the server, each serving one goal request at a time
Workers == {1, 2}

IdleWorker ==
    [pc |-> "idle", request |-> NoRequest, loaded |-> NoRow, saved |-> NoRow,
     response |-> NoResponse, called |-> FALSE]

GoalsInit ==
    /\ inflight = [w \in Workers |-> IdleWorker]
    /\ nextId = 1
    /\ taken = 0

Init ==
    /\ env = [n \in EnvNames |-> PyNone]
    /\ Idle
    /\ arg = <<>>
    /\ coerced = NoOutcome
    /\ WebInit
    /\ AcctInit
    /\ GoalsInit

\* the result a capability computes from the text chat_completion returned
\* and from how coercing that text ended
Normalize(c, t, loaded) ==
    CASE c = "verify_goal_evidence" -> verify_goal_evidence(loaded)
      [] c = "get_ai_coaching" -> get_ai_coaching(t)
      [] c = "decompose_yearly_goal" -> decompose_yearly_goal(loaded)
      [] c = "refine_goal" -> refine_goal(loaded)
      [] c = "get_goal_tips" -> get_goal_tips(loaded)
      [] c = "plan_yearly_goals" -> plan_yearly_goals(loaded)
      [] c = "generate_yearly_report" -> generate_yearly_report(t)

Coerces(c) == c \notin {"get_ai_coaching", "generate_yearly_report"}

\* the environment is edited between calls
SetEnv(name, v) ==
    /\ pc = "idle"
    /\ env' = [env EXCEPT ![name] = v]
    /\ UNCHANGED <<pc, cap, calls, authKey, content, text, obj, outcome, opik, fault>>
    /\ UNCHANGED <<coerceVars, webVars, acctVars, goalVars>>

\* the with statements a capability has entered when its request leaves:
\* opik_trace, then opik_span, around a body that has not ended yet
Entered(e, b) == opik_trace(e, b, TRUE, opik_span(e, b, FALSE, NoOutcome))

\* A caller enters capability c: the key guard, the configuration, the two
\* with statements, the prompt, and chat_completion up to the request
\* leaving.
Invoke(c) ==
    /\ pc = "idle"
    /\ cap' = c
    /\ LET guard == require_openrouter_api_key(env)
           cfg == OpenRouterConfig(env)
       IN  IF guard.kind = "raise"
           THEN /\ outcome' = guard
                /\ pc' = "done"
                /\ UNCHANGED <<calls, authKey, opik>>
           ELSE IF cfg.kind = "raise"
           THEN /\ outcome' = cfg
                /\ pc' = "done"
                /\ UNCHANGED <<calls, authKey, opik>>
           ELSE \E b \in (IF _opik_enabled(env) THEN Backends ELSE {"unused"}) :
                /\ opik' = b
                /\ IF Entered(env, b).kind = "raise"
                   THEN /\ outcome' = Entered(env, b)
                        /\ pc' = "done"
                        /\ UNCHANGED <<calls, authKey>>
                   ELSE /\ outcome' = NoOutcome
                        /\ pc' = "transport"
                        /\ calls' = calls + 1
                        /\ authKey' = get_openai_client(env)
    /\ UNCHANGED <<env, content, text, obj, fault, coerceVars, webVars, acctVars, goalVars>>

\* whether the capability opens a second span for the parsing (line 123)
ParseSpan(c) == c = "verify_goal_evidence"

\* The response arrives; chat_completion returns its trimmed content, the
\* span around the request ends, and the capability coerces and normalises
\* the text (verify_goal_evidence inside a span of its own, which the
\* backend starts or fails to start).
TransportReply ==
    /\ pc = "transport"
    /\ \E r \in Contents(cap) :
          /\ content' = r
          /\ text' = chat_completion(r)
    /\ \E b \in (IF ParseSpan(cap) /\ opik \in {"update_fails", "works"}
                 THEN {opik, "start_fails"} ELSE {opik}) :
          /\ opik' = b
          /\ obj' = IF Coerces(cap) /\ opik_span(env, b, FALSE, NoOutcome).kind # "raise"
                    THEN _best_effort_json_loads(text') ELSE NoOutcome
          /\ outcome' = opik_trace(env, opik, TRUE,
                            IF ParseSpan(cap)
                            THEN opik_span(env, b, FALSE, Normalize(cap, text', obj'))
                            ELSE Normalize(cap, text', obj'))
    /\ pc' = "done"
    /\ UNCHANGED <<env, cap, calls, authKey, fault, coerceVars, webVars, acctVars, goalVars>>

\* The request fails (API error, network failure), or the response has no
\* choice: the error leaves chat_completion and the two with statements.
TransportError(e) ==
    /\ pc = "transport"
    /\ fault' = e
    /\ outcome' = opik_trace(env, opik, TRUE, opik_span(env, opik, FALSE, Raise(e)))
    /\ pc' = "done"
    /\ UNCHANGED <<env, cap, calls, authKey, content, text, obj, opik, coerceVars, webVars, acctVars, goalVars>>

\* The caller has the result; the next call starts afresh.
Finish ==
    /\ pc = "done"
    /\ pc' = "idle"
    /\ cap' = "none"
    /\ calls' = 0
    /\ authKey' = <<>>
    /\ content' = PyNone
    /\ text' = <<>>
    /\ obj' = NoOutcome
    /\ outcome' = NoOutcome
    /\ opik' = "unused"
    /\ fault' = ""
    /\ UNCHANGED <<env, coerceVars, webVars, acctVars, goalVars>>

\* the errors of the transport: an API error, a network failure, and
\* resp.choices[0] on a response without choices
TransportErrors == {"APIError", "APIConnectionError", "IndexError"}

Next ==
    \/ \E name \in EnvNames : \E v \in EnvValues(name) : SetEnv(name, v)
    \/ \E c \in Capabilities : Invoke(c)
    \/ TransportReply
    \/ \E e \in TransportErrors : TransportError(e)
    \/ Finish

Spec == Init /\ [][Next]_vars

\* ----------------------------------- _best_effort_json_loads called alone

InitCoerce ==
    /\ env = [n \in EnvNames |-> PyNone]
    /\ Idle
    /\ arg \in AllTexts
    /\ coerced = NoOutcome
    /\ WebInit
    /\ AcctInit
    /\ GoalsInit

Coerce ==
    /\ coerced = NoOutcome
    /\ coerced' = _best_effort_json_loads(arg)
    /\ UNCHANGED <<aiVars, arg, webVars, acctVars, goalVars>>

NextCoerce == Coerce

SpecCoerce == InitCoerce /\ [][NextCoerce]_vars

\* --------------------------------------------------- the web layer at work

Req(view, user, method, goal_id, data, file) ==
    [view |-> view, user |-> user, method |-> method, goal_id |-> goal_id,
     data |-> data, file |-> file]

\* a draft of 61 characters that starts with "Complete", one of 81 and one
\* of 495 characters
T_complete61 == PFX_Complete \o Rep("x", 53)
T_81  == Rep("x", 81)
T_495 == Rep("x", 495)

\* the JSON bodies sent to each view
Bodies(view) ==
    CASE view = "generate_plan" ->
            { Malformed, EmptyDict, PyDict(<<K_vision>>, <<PyInt(5)>>) }
            \cup {PyDict(<<K_vision>>, <<PyStrVal(t)>>) : t \in {<<>>, <<" ", "r", "u", "n", " ">>, T_81}}
      [] view = "coach_chat" ->
            { Malformed, EmptyDict, PyDict(<<K_message>>, <<PyInt(5)>>) }
            \cup {PyDict(<<K_message>>, <<PyStrVal(t)>>) :
                    t \in { <<" ">>, <<"h", "i">>, <<"T", "o", "o", " ", "M", "u", "c", "h">>,
                            <<"d", "o", " ", "i", "t", " ", "l", "a", "t", "e", "r">>,
                            <<"m", "y", " ", "p", "l", "a", "n">> }}
      [] view = "refine_goal" ->
            { Malformed, EmptyDict, PyDict(<<K_text>>, <<PyStrVal(T_run)>>),
              PyDict(<<K_text, K_timeframe>>, <<PyStrVal(T_doit), PyStrVal(TF_Weekly)>>),
              PyDict(<<K_text, K_timeframe>>, <<PyStrVal(T_complete61), PyStrVal(TF_Yearly)>>),
              PyDict(<<K_text, K_timeframe>>, <<PyStrVal(T_81), PyStrVal(TF_Monthly)>>),
              PyDict(<<K_text, K_timeframe>>,
                     <<PyStrVal(T_495), PyStrVal(<<"H", "o", "u", "r", "l", "y">>)>>),
              PyDict(<<K_text, K_timeframe>>,
                     <<PyStrVal(<<"r", "u", "n", " ", "B", "y", " ", "5">>), PyInt(5)>>) }
      [] OTHER -> {EmptyDict}

\* the views that call a capability, the method each accepts, whether its
\* URL names a goal
AiViews ==
    { "upload_evidence", "generate_plan", "yearly_report", "coach_chat",
      "refine_goal", "generate_goal_tips" }
MethodOf(view) == IF view = "yearly_report" THEN "GET" ELSE "POST"
TakesGoal(view) == view \in {"upload_evidence", "generate_goal_tips"}

\* the requests of a signed-in user with the method the view accepts (the
\* second user asks for the report and for the goals), and for each view one
\* request without a session and one with the other method
Requests ==
    UNION {{Req(v, "ann", MethodOf(v), 0, d, "") : d \in Bodies(v)} :
           v \in {"generate_plan", "yearly_report", "coach_chat", "refine_goal"}}
    \cup {Req("yearly_report", "bob", "GET", 0, EmptyDict, "")}
    \cup {Req(v, u, "POST", g, EmptyDict, f) :
            v \in {"upload_evidence", "generate_goal_tips"},
            u \in Users, g \in 1..3, f \in {"", "photo.png"}}
    \cup {Req(v, Anonymous, MethodOf(v), 1, EmptyDict, "") : v \in AiViews}
    \cup {Req(v, "ann", IF MethodOf(v) = "GET" THEN "POST" ELSE "GET", 1, EmptyDict, "") :
            v \in AiViews}

\* lines 268-271, 394-397, 502-506: the body read and the text checked
TextCheck(data, k, msg) ==
    IF data = Malformed THEN ServerError
    ELSE IF Field(data, k).t # "str" THEN ServerError
    ELSE IF strip(Field(data, k).s) = <<>> THEN ErrorJson(msg)
    ELSE NoResponse

\* get_object_or_404(Goal, id=goal_id, user=request.user)
Found(gs, req) == req.goal_id \in DOMAIN gs /\ gs[req.goal_id].owner = req.user

\* What a view answers before it calls a capability, NoResponse when it
\* goes on to the call: login_required, require_http_methods, the lookup
\* of the goal and the checks of the request.
BeforeCall(gs, req) ==
    IF req.user = Anonymous THEN Redirect
    ELSE IF req.method # MethodOf(req.view) THEN NotAllowed
    ELSE IF TakesGoal(req.view) /\ ~Found(gs, req) THEN NotFound
    ELSE CASE req.view = "upload_evidence" ->
                IF req.file = "" THEN ErrorJson("No file uploaded") ELSE NoResponse
           [] req.view = "generate_plan" ->
                TextCheck(req.data, K_vision, "Vision is required")
           [] req.view = "coach_chat" ->
                TextCheck(req.data, K_message, "Message is required")
           [] req.view = "refine_goal" ->
                TextCheck(req.data, K_text, "Text is required")
           [] req.view = "generate_goal_tips" ->
                IF gs[req.goal_id].status # "pending"
                THEN ErrorJson("Only pending goals can have tips") ELSE NoResponse
           [] OTHER -> NoResponse

\* the errors a capability call ends with (missing key, configuration,
\* transport), and image_file_to_data_url failing to read the upload
CapabilityErrors(view) ==
    {"RuntimeError", "ValueError", "APIError"}
    \cup (IF view = "upload_evidence" THEN {"OSError"} ELSE {})

\* results a capability returns to the view
CapabilityResults(view) ==
    CASE view = "upload_evidence" ->
            { EvidenceVerificationResult(TRUE, <<"o", "k">>),
              EvidenceVerificationResult(FALSE, FEEDBACK_MISSING_KEYS) }
      [] view = "generate_plan" ->
            { PlanObj(EmptyDict).ret, PlanObj(PyDict(<<K_daily>>, <<PyList(<<S_b, S_c>>)>>)).ret }
      [] view = "yearly_report" -> { PyStrVal(REPORT_FALLBACK), S_d }
      [] view = "coach_chat" -> { PyStrVal(COACHING_FALLBACK), S_d }
      [] view = "refine_goal" -> { PyList(<<>>), PyList(<<S_b, S_c>>) }
      [] view = "generate_goal_tips" -> { FALLBACK_TIPS, PyList(<<S_b>>) }

CapabilityOutcomes(view) ==
    {Raise(e) : e \in CapabilityErrors(view)} \cup {Return(v) : v \in CapabilityResults(view)}

\* the view from its capability call on
Serve(gs, req, a, choice, today) ==
    CASE req.view = "upload_evidence" -> upload_evidence(gs, req, a)
      [] req.view = "generate_plan" -> generate_plan(gs, req, a)
      [] req.view = "yearly_report" -> yearly_report(gs, req, a, today)
      [] req.view = "coach_chat" -> coach_chat(gs, req, a, choice)
      [] req.view = "refine_goal" -> views_refine_goal(gs, req, a)
      [] req.view = "generate_goal_tips" -> generate_goal_tips(gs, req, a)

\* A request arrives; the view answers at once or calls its capability.
\* Once a run is kept for comparison, the request kept is the one repeated.
WebRequest(req) ==
    /\ wpc = "idle"
    /\ runs < MaxRuns
    /\ first = NoRun \/ req = first.request
    /\ runs' = runs + 1
    /\ request' = req
    /\ before' = goals
    /\ response' = BeforeCall(goals, req)
    /\ wpc' = IF response' = NoResponse THEN "calling" ELSE "responded"
    /\ UNCHANGED <<goals, ai, fellBack, first>>
    /\ UNCHANGED <<aiVars, coerceVars, acctVars, goalVars>>

\* the days a request may arrive on
Days == FirstDay..MaxDay

\* The capability call ends and the view answers; random.choice draws and
\* timezone.now() reads the day where the except branch uses them.
CapabilityEnds ==
    /\ wpc = "calling"
    /\ \E a \in CapabilityOutcomes(request.view) :
       \E choice \in (IF request.view = "coach_chat" /\ a.kind = "raise"
                      THEN 1..Len(OPENERS) ELSE {1}) :
       \E today \in (IF request.view = "yearly_report" /\ a.kind = "raise"
                     THEN Days ELSE {FirstDay}) :
          LET served == Serve(goals, request, a, choice, today)
          IN  /\ ai' = a
              /\ goals' = served.goals
              /\ response' = served.response
              /\ fellBack' = served.fellBack
    /\ wpc' = "responded"
    /\ UNCHANGED <<runs, request, before, first>>
    /\ UNCHANGED <<aiVars, coerceVars, acctVars, goalVars>>

\* A run that took the except branch is kept for comparison.
Remember ==
    /\ wpc = "responded"
    /\ fellBack
    /\ first = NoRun
    /\ first' = [request |-> request, before |-> before, response |-> response]
    /\ UNCHANGED <<goals, runs, wpc, request, before, ai, response, fellBack>>
    /\ UNCHANGED <<aiVars, coerceVars, acctVars, goalVars>>

\* The response is sent; the next request may arrive.
WebFinish ==
    /\ wpc = "responded"
    /\ wpc' = "idle"
    /\ request' = NoRequest
    /\ before' = <<>>
    /\ ai' = NoOutcome
    /\ response' = NoResponse
    /\ fellBack' = FALSE
    /\ UNCHANGED <<goals, runs, first>>
    /\ UNCHANGED <<aiVars, coerceVars, acctVars, goalVars>>

InitWeb ==
    /\ env = [n \in EnvNames |-> PyNone]
    /\ Idle
    /\ arg = <<>>
    /\ coerced = NoOutcome
    /\ goals \in GoalStores
    /\ runs = 0
    /\ WebIdle
    /\ first = NoRun
    /\ AcctInit
    /\ GoalsInit

NextWeb ==
    \/ \E req \in Requests : WebRequest(req)
    \/ CapabilityEnds
    \/ Remember
    \/ WebFinish

SpecWeb == InitWeb /\ [][NextWeb]_vars

\* ------------------------------------------------ the account views at work

\* tables the first request may find: no user, or users made with
\* create_user (no first name), one of them signed in with client.login
AccountTables ==
    { {}, {UserRow(E_ann, "pw1", <<>>)},
      {UserRow(E_ann, "pw1", <<>>), UserRow(E_bob, "pw2", N_Ann)} }

\* A request to the register page is served.
RegisterRequest(req) ==
    LET h == register_view(accounts, session, req)
    IN  /\ accounts' = h.accounts
        /\ session' = h.session
        /\ last' = Exchange(req, accounts, session, h)
        /\ flow' = FlowStep(flow, req, session, h)
        /\ UNCHANGED <<aiVars, coerceVars, webVars, goalVars>>

\* A request to the login page is served.
LoginRequest(req) ==
    LET h == login_view(accounts, session, req)
    IN  /\ accounts' = h.accounts
        /\ session' = h.session
        /\ last' = Exchange(req, accounts, session, h)
        /\ flow' = FlowStep(flow, req, session, h)
        /\ UNCHANGED <<aiVars, coerceVars, webVars, goalVars>>

\* A request to the logout URL is served.
LogoutRequest(req) ==
    LET h == logout_view(accounts, session, req)
    IN  /\ accounts' = h.accounts
        /\ session' = h.session
        /\ last' = Exchange(req, accounts, session, h)
        /\ flow' = FlowStep(flow, req, session, h)
        /\ UNCHANGED <<aiVars, coerceVars, webVars, goalVars>>

InitAccount ==
    /\ env = [n \in EnvNames |-> PyNone]
    /\ Idle
    /\ arg = <<>>
    /\ coerced = NoOutcome
    /\ WebInit
    /\ accounts \in AccountTables
    /\ session \in {NoUser} \cup {u.email : u \in accounts}
    /\ last = NoExchange
    /\ flow = NoFlow
    /\ GoalsInit

NextAccount ==
    \/ \E req \in RegisterRequests : RegisterRequest(req)
    \/ \E req \in LoginRequests : LoginRequest(req)
    \/ \E req \in LogoutRequests : LogoutRequest(req)

SpecAccount == InitAccount /\ [][NextAccount]_vars

\* ---------------------------------------------- the goal endpoints at work

GoalViews ==
    { "add_goal", "toggle_goal", "delete_goal", "mark_failed", "upload_evidence",
      "update_reminder", "snooze_alarm", "generate_goal_tips" }

\* the views whose URL names a goal
GoalIdViews == GoalViews \ {"add_goal"}

\* the JSON bodies sent to each endpoint; an empty body of snooze_alarm is {}
GoalBodies(view) ==
    CASE view = "add_goal" ->
            { Malformed, PyDict(<<K_text>>, <<PyStrVal(<<" ">>)>>),
              PyDict(<<K_text, K_timeframe>>, <<PyStrVal(<<" ", "r", "u", "n">>), PyStrVal(TF_Weekly)>>) }
      [] view = "mark_failed" ->
            { Malformed, EmptyDict, PyDict(<<K_lesson>>, <<PyStrVal(T_late)>>) }
      [] view = "update_reminder" ->
            { Malformed, EmptyDict,
              PyDict(<<K_reminder_time>>, <<PyStrVal(isoformat_dt(FirstDay))>>),
              PyDict(<<K_reminder_time>>, <<PyStrVal(T_late)>>) }
      [] view = "snooze_alarm" ->
            { EmptyDict, PyDict(<<K_minutes>>, <<PyInt(5000)>>),
              PyDict(<<K_minutes>>, <<PyStrVal(<<"x">>)>>) }
      [] OTHER -> {EmptyDict}

\* one well-formed body per endpoint
PlainBody(view) ==
    CASE view = "add_goal" -> PyDict(<<K_text>>, <<PyStrVal(T_doit)>>)
      [] view = "mark_failed" -> PyDict(<<K_lesson>>, <<PyStrVal(T_late)>>)
      [] view = "update_reminder" ->
            PyDict(<<K_reminder_time>>, <<PyStrVal(isoformat_dt(FirstDay))>>)
      [] OTHER -> EmptyDict

\* The requests when the next id of the table is n.  The first user sends
\* every body to goal 1, one body per endpoint and a body that is no JSON
\* for mark_failed to goal 2, and a toggle to id n, which has no row; the
\* second user sends some requests to goal 1 and a toggle to goal 2.  Some
\* requests have no session, one has the method its endpoint refuses.
GoalRequests(n) ==
    UNION {{Req(v, "ann", "POST", IF v = "add_goal" THEN 0 ELSE 1, d,
                IF v = "upload_evidence" THEN f ELSE "") :
                d \in GoalBodies(v),
                f \in (IF v = "upload_evidence" THEN {"", "photo.png"} ELSE {""})} :
           v \in GoalViews}
    \cup {Req(v, "ann", "POST", 2, PlainBody(v),
               IF v = "upload_evidence" THEN "photo.png" ELSE "") : v \in GoalIdViews}
    \cup {Req("mark_failed", "ann", "POST", 2, Malformed, ""),
          Req("toggle_goal", "ann", "POST", n, EmptyDict, ""),
          Req("toggle_goal", "bob", "POST", 2, EmptyDict, "")}
    \cup {Req(v, "bob", "POST", 1, PlainBody(v), "") :
               v \in {"toggle_goal", "delete_goal", "mark_failed"}}
    \cup {Req(v, Anonymous, "POST", 1, PlainBody(v), "") :
               v \in {"add_goal", "toggle_goal"}}
    \cup {Req("delete_goal", "ann", "GET", 1, EmptyDict, "")}

\* What an endpoint answers before it reads or writes a row, NoResponse when
\* it goes on: login_required, require_http_methods, then the lookup of the
\* goal and the checks of the request.  mark_failed parses the body before
\* the lookup (lines 205-208).
GoalBefore(gs, req) ==
    IF req.user = Anonymous THEN Redirect
    ELSE IF req.method # "POST" THEN NotAllowed
    ELSE IF req.view = "add_goal" THEN NoResponse
    ELSE IF req.view = "mark_failed" /\ req.data = Malformed THEN ServerError
    ELSE IF ~Found(gs, req) THEN NotFound
    ELSE IF req.view = "upload_evidence" /\ req.file = ""
    THEN ErrorJson("No file uploaded")
    ELSE IF req.view = "generate_goal_tips" /\ gs[req.goal_id].status # "pending"
    THEN ErrorJson("Only pending goals can have tips")
    ELSE NoResponse

\* how verify_goal_evidence and get_goal_tips end for a view: the results
\* they make of upstream objects, or an error
VerifyOutcomes ==
    { verify_goal_evidence(Return(o)) :
        o \in { EmptyDict,
                ObjectOf(<<K_verified, K_feedback>>, <<PyBool(TRUE), S_d>>),
                ObjectOf(<<K_verified, K_feedback>>, <<PyInt(0), S_blank>>) } }
    \cup {Raise("APIError")}

TipsOutcomes ==
    { get_goal_tips(Return(o)) :
        o \in { EmptyDict, PyDict(<<K_tips>>, <<PyInt(5)>>),
                PyDict(<<K_tips>>, <<PyList(<<S_b, S_c>>)>>) } }
    \cup {Raise("RuntimeError")}

GoalOutcomes(view) ==
    CASE view = "upload_evidence" -> VerifyOutcomes
      [] view = "generate_goal_tips" -> TipsOutcomes
      [] OTHER -> {NoOutcome}

\* the view from the row read on
GoalServe(gs, req, goal, a, now) ==
    CASE req.view = "toggle_goal" -> toggle_goal(gs, req, goal)
      [] req.view = "delete_goal" -> delete_goal(gs, req, goal)
      [] req.view = "mark_failed" -> mark_failed(gs, req, goal)
      [] req.view = "upload_evidence" -> upload_evidence_saving(gs, req, goal, a)
      [] req.view = "update_reminder" -> update_reminder(gs, req, goal)
      [] req.view = "snooze_alarm" -> snooze_alarm(gs, req, goal, now)
      [] req.view = "generate_goal_tips" -> generate_goal_tips_saving(gs, req, goal, a)

WorkerDone(req, goal, w) ==
    [pc |-> "done", request |-> req, loaded |-> goal, saved |-> w.saved,
     response |-> w.response, called |-> w.called]

\* A request arrives at a worker: add_goal is served whole; another view is
\* answered at once or reads its row.
GoalRequest(w, req) ==
    /\ inflight[w].pc = "idle"
    /\ taken < MaxRequests
    /\ taken' = taken + 1
    /\ IF req.view = "add_goal" /\ GoalBefore(goals, req) = NoResponse
       THEN \E today \in Days :
              LET r == add_goal(goals, req, nextId, today)
              IN  /\ goals' = r.goals
                  /\ nextId' = IF r.saved # NoRow THEN nextId + 1 ELSE nextId
                  /\ inflight' = [inflight EXCEPT ![w] = WorkerDone(req, NoRow, r)]
       ELSE /\ inflight' = [inflight EXCEPT ![w] =
                IF GoalBefore(goals, req) # NoResponse
                THEN WorkerDone(req, NoRow,
                                Wrote(goals, NoRow, GoalBefore(goals, req), FALSE))
                ELSE [IdleWorker EXCEPT !.pc = "loaded", !.request = req,
                                        !.loaded = goals[req.goal_id]]]
            /\ UNCHANGED <<goals, nextId>>
    /\ UNCHANGED <<runs, wpc, request, before, ai, response, fellBack, first>>
    /\ UNCHANGED <<aiVars, coerceVars, acctVars>>

\* some request of those the table allows arrives; the workers are alike,
\* it goes to the first idle one
GoalArrives(w) ==
    /\ inflight[w].pc = "idle"
    /\ \A v \in Workers : v < w => inflight[v].pc # "idle"
    /\ taken < MaxRequests
    /\ \E req \in GoalRequests(nextId) : GoalRequest(w, req)

\* The view goes on from the row it read: the capability call ends where
\* there is one, the row is written, the response is made.
GoalSave(w) ==
    /\ inflight[w].pc = "loaded"
    /\ \E a \in GoalOutcomes(inflight[w].request.view) :
       \E now \in (IF inflight[w].request.view = "snooze_alarm" THEN Days ELSE {FirstDay}) :
          LET r == GoalServe(goals, inflight[w].request, inflight[w].loaded, a, now)
          IN  /\ goals' = r.goals
              /\ inflight' = [inflight EXCEPT ![w] =
                    WorkerDone(inflight[w].request, inflight[w].loaded, r)]
    /\ UNCHANGED <<nextId, taken>>
    /\ UNCHANGED <<runs, wpc, request, before, ai, response, fellBack, first>>
    /\ UNCHANGED <<aiVars, coerceVars, acctVars>>

\* The response is sent; the worker takes the next request.
GoalRespond(w) ==
    /\ inflight[w].pc = "done"
    /\ inflight' = [inflight EXCEPT ![w] = IdleWorker]
    /\ UNCHANGED <<nextId, taken>>
    /\ UNCHANGED <<goals, runs, wpc, request, before, ai, response, fellBack, first>>
    /\ UNCHANGED <<aiVars, coerceVars, acctVars>>

\* tables the first request may find: no goal; a pending goal of each
\* user; a completed goal with verified evidence and a failed goal
GoalTables ==
    { <<>>,
      << NewGoal("ann", T_run, TF_Daily, 1), NewGoal("bob", T_doit, TF_Weekly, 2) >>,
      << [NewGoal("ann", T_run, TF_Daily, 1) EXCEPT
              !.status = "completed", !.evidence = "old.png",
              !.verified = PyBool(TRUE), !.ai_feedback = <<"o", "k">>,
              !.tips = PyList(<<S_b>>)],
         [NewGoal("bob", T_doit, TF_Weekly, 2) EXCEPT
              !.status = "failed", !.lesson = T_late] >> }

InitGoals ==
    /\ env = [n \in EnvNames |-> PyNone]
    /\ Idle
    /\ arg = <<>>
    /\ coerced = NoOutcome
    /\ goals \in GoalTables
    /\ runs = 0
    /\ WebIdle
    /\ first = NoRun
    /\ AcctInit
    /\ inflight = [w \in Workers |-> IdleWorker]
    /\ nextId = Len(goals) + 1
    /\ taken = 0

NextGoals ==
    \/ \E w \in Workers : GoalArrives(w)
    \/ \E w \in Workers : GoalSave(w)
    \/ \E w \in Workers : GoalRespond(w)

SpecGoals == InitGoals /\ [][NextGoals]_vars

\* ------------------------------------------------------------ properties

\* the transport answered and the capability went on to coerce the answer
Answered == pc = "done" /\ obj.kind # "none"

IsStrList(v) == v.t = "list" /\ \A i \in 1..Len(v.items) : v.items[i].t = "str"

IsDictOfStrLists(v, ks) ==
    /\ v.t = "dict"
    /\ v.keys = ks
    /\ \A i \in 1..Len(v.items) : IsStrList(v.items[i])

\* the declared return type of each capability
DeclaredShape(c, v) ==
    CASE c = "verify_goal_evidence" ->
            /\ v.t = "EvidenceVerificationResult"
            /\ v.keys = <<K_verified, K_feedback>>
            /\ v.items[1].t = "bool"
            /\ v.items[2].t = "str"
      [] c = "decompose_yearly_goal" ->
            IsDictOfStrLists(v, <<K_daily, K_weekly, K_monthly>>)
      [] c = "plan_yearly_goals" ->
            IsDictOfStrLists(v, <<K_daily, K_weekly, K_monthly, K_yearly>>)
      [] c \in {"refine_goal", "get_goal_tips"} -> IsStrList(v)
      [] OTHER -> v.t = "str"

\* C1: whatever text the transport returns, verify_goal_evidence,
\* decompose_yearly_goal, refine_goal, get_goal_tips and plan_yearly_goals
\* return a result of their declared shape and raise no exception.
C1_MalformedOutputNeverRaised ==
    (Answered /\ cap \in {"verify_goal_evidence", "decompose_yearly_goal",
                          "refine_goal", "get_goal_tips", "plan_yearly_goals"})
        => (outcome.kind = "return" /\ DeclaredShape(cap, outcome.ret))

\* C2: for every text, _best_effort_json_loads raises nothing and returns a
\* mapping, possibly empty.
C2_CoerceReturnsMapping ==
    coerced.kind # "none" => (coerced.kind = "return" /\ coerced.ret.t = "dict")

\* C2 witness: the call has returned the empty mapping for a text that is
\* not empty and is not JSON.
C2_Witness ==
    /\ coerced = Return(EmptyDict)
    /\ strip(arg) # <<>>
    /\ json_loads(strip(arg)).raised

\* whether json.loads(t) is a dict, and that dict
LoadsDict(t) == ~json_loads(t).raised /\ json_loads(t).value.t = "dict"

\* the result the four steps of the algorithm give for the trimmed text t
FourSteps(t) ==
    LET opens  == {i \in 1..Len(t) : t[i] = "{"}
        closes == {i \in 1..Len(t) : t[i] = "}"}
    IN  IF t = <<>> THEN EmptyDict
        ELSE IF LoadsDict(t) THEN json_loads(t).value
        ELSE IF opens = {} \/ closes = {} THEN EmptyDict
        ELSE IF SetMax(closes) < SetMin(opens) THEN EmptyDict
        ELSE IF LoadsDict(SubSeq(t, SetMin(opens), SetMax(closes)))
             THEN json_loads(SubSeq(t, SetMin(opens), SetMax(closes))).value
             ELSE EmptyDict

\* C3: _best_effort_json_loads gives {} for empty trimmed input, the parsed
\* object when the whole trimmed text is a JSON object, otherwise the parsed
\* substring from the first "{" to the last "}" when that is a JSON object,
\* and {} in every other case.
C3_FourStepAlgorithm ==
    coerced.kind # "none" => coerced = Return(FourSteps(strip(arg)))

\* C3 witness: the whole text is not JSON and the substring between the
\* braces gave a non-empty object.
C3_Witness ==
    /\ coerced.kind = "return"
    /\ coerced.ret # EmptyDict
    /\ json_loads(strip(arg)).raised

\* no API key is configured: the variable is unset or empty
NoApiKey == env["OPENROUTER_API_KEY"] \in {PyNone, S_empty}

ListCapabilities ==
    {"decompose_yearly_goal", "refine_goal", "get_goal_tips", "plan_yearly_goals"}

KeysOf(c) ==
    CASE c = "decompose_yearly_goal" -> {K_daily, K_weekly, K_monthly}
      [] c = "refine_goal" -> {K_subgoals}
      [] c = "get_goal_tips" -> {K_tips}
      [] c = "plan_yearly_goals" -> {K_daily, K_weekly, K_monthly, K_yearly}
      [] OTHER -> {}

CapOf(c, k) ==
    IF c = "decompose_yearly_goal"
    THEN (IF k = K_daily THEN 3 ELSE IF k = K_weekly THEN 2 ELSE 1)
    ELSE 3

\* a capability with a list result has returned
ListsReturned == Answered /\ cap \in ListCapabilities /\ outcome.kind = "return"

\* the coerced response holds a list under k; that list, <<>> when it holds
\* none
UpstreamIsList(k) == HasKey(obj.ret, k) /\ DictGet(obj.ret, k, PyNone).t = "list"
UpstreamList(k) == IF UpstreamIsList(k) THEN DictGet(obj.ret, k, PyNone).items ELSE <<>>

\* the list the capability returned for key k
ResultList(k) ==
    IF cap \in {"refine_goal", "get_goal_tips"} THEN outcome.ret.items
    ELSE DictGet(outcome.ret, k, PyNone).items

\* the positions of xs whose entry, as text, is not empty after trimming
UsableAt(xs) == {i \in 1..Len(xs) : strip(str(xs[i])) # <<>>}

\* the j-th smallest member of a set of positions
Nth(S, j) == CHOOSE i \in S : Cardinality({k \in S : k <= i}) = j

\* the trimmed texts of the first n usable entries of xs, in their order
FirstUsable(xs, n) ==
    [j \in 1..(IF Cardinality(UsableAt(xs)) < n THEN Cardinality(UsableAt(xs)) ELSE n)
        |-> PyStrVal(strip(str(xs[Nth(UsableAt(xs), j)])))]

\* C5: decompose_yearly_goal returns at most 3 daily, 2 weekly and 1 monthly
\* items, and every upstream entry that is not a string, or is empty after
\* trimming, is dropped: each returned item is the trimmed text of an
\* upstream string entry.
C5_DecomposeCapsAndDrops ==
    (ListsReturned /\ cap = "decompose_yearly_goal") =>
        \A k \in KeysOf(cap) :
            /\ Len(ResultList(k)) <= CapOf(cap, k)
            /\ UpstreamIsList(k) =>
                 \A i \in 1..Len(ResultList(k)) :
                    \E j \in 1..Len(UpstreamList(k)) :
                        /\ UpstreamList(k)[j].t = "str"
                        /\ strip(UpstreamList(k)[j].s) # <<>>
                        /\ ResultList(k)[i] = PyStrVal(strip(UpstreamList(k)[j].s))

\* C6: in every list-valued capability each returned list is the first N
\* usable entries of the upstream list (trimmed, empties dropped before the
\* cap is applied); get_goal_tips with no usable entry is left to C10.
C6_CapAfterFilter ==
    ListsReturned =>
        \A k \in KeysOf(cap) :
            (/\ UpstreamIsList(k)
             /\ cap = "get_goal_tips" => UsableAt(UpstreamList(k)) # {})
                => ResultList(k) = FirstUsable(UpstreamList(k), CapOf(cap, k))

\* C7: every list a list-valued capability returns holds only strings that
\* are non-empty and have no leading or trailing whitespace.
C7_ListsOfTrimmedStrings ==
    ListsReturned =>
        \A k \in KeysOf(cap) :
            \A i \in 1..Len(ResultList(k)) :
                /\ ResultList(k)[i].t = "str"
                /\ ResultList(k)[i].s # <<>>
                /\ ResultList(k)[i].s[1] \notin Whitespace
                /\ ResultList(k)[i].s[Len(ResultList(k)[i].s)] \notin Whitespace

\* C7 witness: refine_goal has returned two items for an upstream list that
\* holds an empty string, a padded string and a number.
C7_Witness ==
    /\ ListsReturned
    /\ cap = "refine_goal"
    /\ UpstreamList(K_subgoals) = <<S_empty, S_a, PyInt(5)>>
    /\ Len(outcome.ret.items) = 2

\* verify_goal_evidence has coerced the answer
VerifyAnswered == Answered /\ cap = "verify_goal_evidence" /\ obj.kind = "return"

\* C8: verify_goal_evidence returns verified=false with the fixed fallback
\* feedback whenever the coerced response lacks "verified" or "feedback",
\* whatever the other key holds.
C8_MissingKeyFallback ==
    (/\ VerifyAnswered
     /\ ~HasKey(obj.ret, K_verified) \/ ~HasKey(obj.ret, K_feedback))
        => outcome = Return(EvidenceVerificationResult(FALSE, FEEDBACK_MISSING_KEYS))

\* C8 witness: the response says verified: true and has no feedback, and
\* the call has returned.
C8_Witness ==
    /\ VerifyAnswered
    /\ HasKey(obj.ret, K_verified)
    /\ DictGet(obj.ret, K_verified, PyNone) = PyBool(TRUE)
    /\ ~HasKey(obj.ret, K_feedback)
    /\ outcome.kind = "return"

\* the upstream feedback is present but empty, null or whitespace-only
BlankFeedback ==
    /\ HasKey(obj.ret, K_verified)
    /\ HasKey(obj.ret, K_feedback)
    /\ \/ DictGet(obj.ret, K_feedback, PyNone).t = "null"
       \/ /\ DictGet(obj.ret, K_feedback, PyNone).t = "str"
          /\ \A i \in 1..Len(DictGet(obj.ret, K_feedback, PyNone).s) :
                DictGet(obj.ret, K_feedback, PyNone).s[i] \in Whitespace

\* C9: every result of verify_goal_evidence has a boolean verified and a
\* feedback string of 1 to 300 characters; a present but empty, null or
\* whitespace-only upstream feedback is replaced by the generic message.
C9_FeedbackBounded ==
    (VerifyAnswered /\ outcome.kind = "return") =>
        /\ outcome.ret.t = "EvidenceVerificationResult"
        /\ outcome.ret.items[1].t = "bool"
        /\ outcome.ret.items[2].t = "str"
        /\ Len(outcome.ret.items[2].s) \in 1..300
        /\ BlankFeedback => outcome.ret.items[2].s = FEEDBACK_EMPTY

\* C9 witness: the upstream feedback is longer than 300 characters and the
\* returned feedback has exactly 300.
C9_Witness ==
    /\ VerifyAnswered
    /\ outcome.kind = "return"
    /\ HasKey(obj.ret, K_verified)
    /\ HasKey(obj.ret, K_feedback)
    /\ Len(DictGet(obj.ret, K_feedback, PyNone).s) > 300
    /\ Len(outcome.ret.items[2].s) = 300

\* C10: get_goal_tips returns the first up to 3 usable tips of the coerced
\* response in their order, without padding, and exactly the three fixed
\* fallback tips when there is no usable tip (key missing, value no list, or
\* only empty entries).
C10_TipsOrFallback ==
    (ListsReturned /\ cap = "get_goal_tips") =>
        IF UsableAt(UpstreamList(K_tips)) = {}
        THEN outcome.ret = FALLBACK_TIPS
        ELSE outcome.ret.items = FirstUsable(UpstreamList(K_tips), 3)

\* C10 witness: the answer wraps an object with two tips in prose, and
\* exactly those two tips are returned.
C10_Witness ==
    /\ ListsReturned
    /\ cap = "get_goal_tips"
    /\ json_loads(text).raised
    /\ UpstreamList(K_tips) = <<S_b, S_c>>
    /\ outcome.ret.items = <<S_b, S_c>>

\* the four keys of a plan
PlanKeys == {K_daily, K_weekly, K_monthly, K_yearly}

\* C11: plan_yearly_goals always returns a mapping with exactly the four
\* keys daily, weekly, monthly and yearly, each a list of at most 3 items;
\* a key whose upstream value is missing or is no list holds the empty list
\* and every other key holds the first usable entries of its own upstream
\* list, whatever the remaining keys hold.
C11_PlanFourKeys ==
    (Answered /\ cap = "plan_yearly_goals") =>
        /\ outcome.kind = "return"
        /\ outcome.ret.t = "dict"
        /\ Len(outcome.ret.keys) = 4
        /\ {outcome.ret.keys[i] : i \in 1..Len(outcome.ret.keys)} = PlanKeys
        /\ \A k \in PlanKeys :
              /\ DictGet(outcome.ret, k, PyNone).t = "list"
              /\ Len(ResultList(k)) <= 3
              /\ ~UpstreamIsList(k) => ResultList(k) = <<>>
              /\ UpstreamIsList(k) => ResultList(k) = FirstUsable(UpstreamList(k), 3)

\* C11 witness: the upstream daily is a number, weekly is missing and
\* monthly is a list of four usable entries; the plan holds no daily item
\* and three monthly items.
C11_Witness ==
    /\ Answered
    /\ cap = "plan_yearly_goals"
    /\ DictGet(obj.ret, K_daily, PyNone) = PyInt(5)
    /\ ~HasKey(obj.ret, K_weekly)
    /\ Len(UpstreamList(K_monthly)) = 4
    /\ outcome.kind = "return"
    /\ ResultList(K_daily) = <<>>
    /\ Len(ResultList(K_monthly)) = 3

\* a free-text capability has had its answer from the transport
TextAnswered ==
    /\ pc = "done"
    /\ cap \in {"get_ai_coaching", "generate_yearly_report"}
    /\ calls = 1
    /\ fault = ""

\* the content of the response holds no character besides whitespace
BlankContent ==
    \/ content.t = "null"
    \/ \A i \in 1..Len(content.s) : content.s[i] \in Whitespace

\* C12: get_ai_coaching and generate_yearly_report never return an empty
\* string: when the transport text is empty, or empty after trimming, each
\* returns its own fixed fallback sentence, and otherwise each returns the
\* text the transport returned.
C12_TextOrFallback ==
    TextAnswered =>
        /\ outcome.kind = "return"
        /\ outcome.ret.t = "str"
        /\ outcome.ret.s # <<>>
        /\ BlankContent <=> text = <<>>
        /\ outcome.ret.s =
              IF BlankContent
              THEN (IF cap = "get_ai_coaching" THEN COACHING_FALLBACK ELSE REPORT_FALLBACK)
              ELSE text

\* C12 witness: the content of the response is whitespace only and the
\* report is the fallback sentence of generate_yearly_report.
C12_Witness ==
    /\ TextAnswered
    /\ cap = "generate_yearly_report"
    /\ content.t = "str"
    /\ content.s # <<>>
    /\ BlankContent
    /\ outcome = Return(PyStrVal(REPORT_FALLBACK))

\* an API key is configured: the variable holds more than whitespace
KeyConfigured ==
    /\ env["OPENROUTER_API_KEY"].t = "str"
    /\ strip(env["OPENROUTER_API_KEY"].s) # <<>>

\* C13: each capability invocation with a configured API key issues exactly
\* one transport request, whether the request succeeds or fails; no call
\* sends a second request.
C13_ExactlyOneRequest ==
    /\ calls <= 1
    /\ (pc = "done" /\ KeyConfigured) => calls = 1

\* C14: when the transport fails (API error, network failure, response
\* without a choice) the capability ends with that error: it is not caught,
\* replaced by a default result or turned into a normal return.
C14_TransportFailurePropagates ==
    (pc = "done" /\ fault # "") => outcome = Raise(fault)

\* C14 witness: with the tracing backend at work, the response to
\* decompose_yearly_goal had no choice and the call ended with IndexError.
C14_Witness ==
    /\ pc = "done"
    /\ cap = "decompose_yearly_goal"
    /\ fault = "IndexError"
    /\ opik = "works"
    /\ outcome.kind = "raise"

\* C15: constructing OpenRouterConfig raises nothing, whatever the
\* environment variables hold, and an absent OPENROUTER_API_KEY gives the
\* empty key.
C15_ConfigNeverRaises ==
    /\ OpenRouterConfig(env).kind = "return"
    /\ env["OPENROUTER_API_KEY"].t = "null" => OpenRouterConfig(env).ret = S_empty

\* C16: tracing never changes how a capability call ends: past the key
\* guard and the configuration the wrapped request runs exactly once, a
\* transport error ends the call as it would without tracing, and no call
\* ends with an error of the tracing backend.
C16_TracingTransparent ==
    (/\ pc = "done"
     /\ require_openrouter_api_key(env).kind = "return"
     /\ OpenRouterConfig(env).kind = "return")
        => /\ calls = 1
           /\ outcome.exc # "OpikError"
           /\ fault # "" => outcome = Raise(fault)

\* the view has answered a request whose capability call raised
CapabilityRaised == wpc = "responded" /\ ai.kind = "raise"

\* C17: whenever the capability raises, each of upload_evidence,
\* generate_plan, yearly_report, coach_chat, refine_goal and
\* generate_goal_tips answers 200 with a document built by its except
\* branch; the error does not reach the client.
C17_FallbackOnAnyError ==
    CapabilityRaised
        => /\ request.view \in AiViews
           /\ response.status = 200
           /\ response.body.t = "dict"
           /\ fellBack

\* C17 witness: generate_plan answered 200 with its own lists after the
\* transport failed.
C17_Witness ==
    /\ CapabilityRaised
    /\ request.view = "generate_plan"
    /\ ai = Raise("APIError")
    /\ response.status = 200
    /\ response.body = PlanFallback(strip(Field(request.data, K_vision).s))

\* the same request met the same table as the run that was kept, and the
\* except branch answered again
SameRunAgain ==
    /\ wpc = "responded"
    /\ fellBack
    /\ first # NoRun
    /\ request = first.request
    /\ before = first.before

\* C18: two runs of a view with the same request and the same stored goals
\* that both take the except branch answer with the same response.
C18_FallbackDeterministic == SameRunAgain => response = first.response

\* the row upload_evidence saved for the goal of the request
SavedRow == goals[request.goal_id]

\* C19: when verification raises during upload_evidence the goal is saved
\* with verified = True, status completed and an ai_feedback that is not
\* empty, whatever the goal and the file.
C19_HeuristicVerifies ==
    (CapabilityRaised /\ request.view = "upload_evidence")
        => /\ SavedRow.verified = PyBool(TRUE)
           /\ SavedRow.status = "completed"
           /\ SavedRow.ai_feedback # <<>>
           /\ SavedRow.evidence = request.file
           /\ response.status = 200
           /\ DictGet(response.body, <<"verified">>, PyNone) = PyBool(TRUE)

\* C19 witness: the upload could not be read, the goal was pending and
\* unverified with a text longer than 60 characters, and the row is saved
\* verified with the text cut.
C19_Witness ==
    /\ CapabilityRaised
    /\ request.view = "upload_evidence"
    /\ ai = Raise("OSError")
    /\ before[request.goal_id].verified = PyNone
    /\ before[request.goal_id].status = "pending"
    /\ Len(before[request.goal_id].text) > 60
    /\ SavedRow.verified = PyBool(TRUE)
    /\ SavedRow.status = "completed"

\* the last request went to the login or the register page and came from
\* a session that was authenticated
AuthenticatedAtForm ==
    /\ last.request.view \in {"login", "register"}
    /\ last.session # NoUser

\* C20: a request to the login page or the register page by a session that
\* is already authenticated is answered with a 302 redirect; no form is
\* constructed, no user is created and the session keeps its user.
C20_AuthenticatedRedirected ==
    AuthenticatedAtForm
        => /\ last.response.status = 302
           /\ last.response.location = LANDING
           /\ last.form = "none"
           /\ last.message = <<>>
           /\ accounts = last.accounts
           /\ session = last.session

\* C20 witness: a session authenticated as one user posted the email and
\* password of another registered user to the login page, was redirected
\* and is still the first user.
C20_Witness ==
    /\ AuthenticatedAtForm
    /\ last.request.view = "login"
    /\ last.request.method = "POST"
    /\ last.session = E_ann
    /\ authenticate(last.accounts, strip(last.request.post.email),
                    last.request.post.password) # {}
    /\ strip(last.request.post.email) = E_bob
    /\ last.response.status = 302
    /\ session = E_ann

\* the request just served is the step that brought the client of the flow
\* to the stage it is in
JustLoggedOut == flow.stage = "loggedout" /\ last.request.view = "logout"
JustLoggedIn ==
    /\ flow.stage = "loggedin"
    /\ last.request.view = "login"
    /\ last.request.method = "POST"
    /\ last.session = NoUser
    /\ strip(last.request.post.email) = flow.email
    /\ last.request.post.password = flow.password

\* C21: over register, logout, login: a valid registration leaves the
\* session authenticated as the registered email, logout leaves it without
\* a user, and a later login with the same email and password
\* authenticates it again as that user.
C21_RegisterLogoutLogin ==
    /\ flow.stage = "registered" => session = flow.email
    /\ JustLoggedOut => session = NoUser
    /\ JustLoggedIn => (session = flow.email /\ last.response.status = 302)

\* C21 witness: the client registered a fresh email, logged out, and its
\* login with that email and password has just been answered.
C21_Witness ==
    /\ JustLoggedIn
    /\ flow.email = E_bob
    /\ session = E_bob
    /\ \E u \in accounts : u.email = E_bob /\ u.password = flow.password

\* the places of the JSON objects in the text t: from a "{" to a "}" with a
\* JSON object between them
ObjectSpans(t) ==
    {sp \in (1..Len(t)) \X (1..Len(t)) :
        /\ sp[1] < sp[2]
        /\ t[sp[1]] = "{"
        /\ t[sp[2]] = "}"
        /\ LoadsDict(SubSeq(t, sp[1], sp[2]))}

\* the first JSON object found in t: the one that starts leftmost
FirstObject(t) ==
    LET sp == CHOOSE a \in ObjectSpans(t) : \A b \in ObjectSpans(t) : a[1] <= b[1]
    IN  json_loads(SubSeq(t, sp[1], sp[2])).value

\* C22: for every text that holds a JSON object, wrapped in prose that may
\* hold further braces or a second object, _best_effort_json_loads returns
\* the first JSON object of the text.
C22_RecoversFirstObject ==
    (coerced.kind # "none" /\ ObjectSpans(strip(arg)) # {})
        => coerced = Return(FirstObject(strip(arg)))

\* worker w has served a request to the view and answered it with 200
GoalAnswered(w, view) ==
    /\ inflight[w].pc = "done"
    /\ inflight[w].request.view = view
    /\ inflight[w].response.status = 200

\* worker w read the row that worker v wrote for the same goal
ReadAfter(v, w) ==
    /\ v # w
    /\ inflight[v].request.goal_id = inflight[w].request.goal_id
    /\ inflight[w].loaded = inflight[v].saved

\* C23: toggle_goal writes a pending goal as completed with its
\* reminder_time cleared; it writes a completed or failed goal as pending
\* with evidence, verified and ai_feedback cleared and lesson, tips and
\* every other field as they were; a toggle that reads what the toggle of a
\* pending goal wrote writes the goal as pending again, as it was before
\* the two but for the reminder.
C23_ToggleFlips ==
    /\ \A w \in Workers :
          GoalAnswered(w, "toggle_goal") =>
             IF inflight[w].loaded.status = "pending"
             THEN inflight[w].saved =
                     [inflight[w].loaded EXCEPT !.status = "completed",
                                                !.reminder_time = 0]
             ELSE /\ inflight[w].saved.status = "pending"
                  /\ inflight[w].saved.evidence = ""
                  /\ inflight[w].saved.verified = PyNone
                  /\ inflight[w].saved.ai_feedback = <<>>
                  /\ inflight[w].saved.lesson = inflight[w].loaded.lesson
                  /\ inflight[w].saved.tips = inflight[w].loaded.tips
                  /\ inflight[w].saved =
                        [inflight[w].loaded EXCEPT
                            !.status = "pending", !.evidence = "",
                            !.verified = PyNone, !.ai_feedback = <<>>]
    /\ \A v, w \in Workers :
          ( /\ GoalAnswered(v, "toggle_goal")
            /\ GoalAnswered(w, "toggle_goal")
            /\ ReadAfter(v, w)
            /\ inflight[v].loaded.status = "pending" )
          => inflight[w].saved = [inflight[v].loaded EXCEPT !.reminder_time = 0]

\* C23 witness: a pending goal was toggled to completed and the next toggle
\* read that row and wrote it as pending.
C23_Witness ==
    \E v, w \in Workers :
        /\ GoalAnswered(v, "toggle_goal")
        /\ GoalAnswered(w, "toggle_goal")
        /\ ReadAfter(v, w)
        /\ inflight[v].loaded.status = "pending"
        /\ inflight[v].saved.status = "completed"
        /\ inflight[w].saved.status = "pending"
        /\ goals[inflight[w].request.goal_id].status = "pending"

\* worker w takes a step from pc a to pc b while serving the view
GoalStep(w, view, a, b) ==
    /\ inflight[w].pc = a
    /\ inflight'[w].pc = b
    /\ inflight'[w].request.view = view

\* a non-empty list
FilledList(v) == v.t = "list" /\ Len(v.items) > 0

\* the tips get_goal_tips can return, and those of the except branch
TipsFor(goal) ==
    {a.ret : a \in {o \in TipsOutcomes : o.kind = "return"}}
    \cup {HeuristicTips(goal.timeframe)}

\* generate_goal_tips refuses the owner's goal that is not pending, in one
\* step from the request: 400, no capability call, the table as it was
TipsRefusedStep(w) ==
    ( /\ GoalStep(w, "generate_goal_tips", "idle", "done")
      /\ inflight'[w].request.user # Anonymous
      /\ inflight'[w].request.method = "POST"
      /\ Found(goals, inflight'[w].request)
      /\ goals[inflight'[w].request.goal_id].status # "pending" )
    => /\ inflight'[w].response.status = 400
       /\ ~inflight'[w].called
       /\ goals' = goals

\* generate_goal_tips read a pending goal and writes: while the row is in
\* the table the answer is 200 and the table changes in the tips of that
\* row only, which become a non-empty list
TipsStoredStep(w) ==
    ( /\ GoalStep(w, "generate_goal_tips", "loaded", "done")
      /\ inflight[w].request.goal_id \in DOMAIN goals )
    => /\ inflight[w].loaded.status = "pending"
       /\ inflight'[w].response.status = 200
       /\ DOMAIN goals' = DOMAIN goals
       /\ FilledList(goals'[inflight[w].request.goal_id].tips)
       /\ goals'[inflight[w].request.goal_id].tips \in TipsFor(inflight[w].loaded)
       /\ goals' = [goals EXCEPT ![inflight[w].request.goal_id].tips =
                        goals'[inflight[w].request.goal_id].tips]

\* C24: generate_goal_tips on a goal that is not pending answers 400,
\* calls no capability and leaves the table as it was; on a pending goal it
\* stores a non-empty list of tips, those of the capability or the
\* heuristic ones when the capability raised, and changes no other field of
\* the goal and no other goal.
C24_TipsOnlyTips ==
    [][\A w \in Workers : TipsRefusedStep(w) /\ TipsStoredStep(w)]_vars

\* C24 witness: the tips of a pending goal were stored after the capability
\* raised, while the reminder of the goal had been set since the view read
\* the row; that reminder is still in the table.
C24_Witness ==
    \E w \in Workers :
        /\ GoalAnswered(w, "generate_goal_tips")
        /\ inflight[w].loaded.status = "pending"
        /\ inflight[w].saved.tips = HeuristicTips(inflight[w].loaded.timeframe)
        /\ FilledList(inflight[w].saved.tips)
        /\ inflight[w].loaded.reminder_time = 0
        /\ inflight[w].saved.reminder_time # 0
        /\ goals[inflight[w].request.goal_id] = inflight[w].saved

\* upload_evidence read the owner's goal and writes: the answer is 200 and
\* the row of the table is completed, with the file, a bool in verified and
\* a feedback that is not empty
UploadStoredStep(w) ==
    GoalStep(w, "upload_evidence", "loaded", "done")
    => /\ inflight[w].request.file # ""
       /\ inflight'[w].response.status = 200
       /\ inflight[w].request.goal_id \in DOMAIN goals'
       /\ goals'[inflight[w].request.goal_id] = inflight'[w].saved
       /\ inflight'[w].saved.status = "completed"
       /\ inflight'[w].saved.evidence = inflight[w].request.file
       /\ inflight'[w].saved.verified.t = "bool"
       /\ inflight'[w].saved.ai_feedback # <<>>
       /\ \A i \in DOMAIN goals \ {inflight[w].request.goal_id} : goals'[i] = goals[i]

\* upload_evidence without a file on the owner's goal, in one step from the
\* request: 400 and the table as it was
UploadRefusedStep(w) ==
    ( /\ GoalStep(w, "upload_evidence", "idle", "done")
      /\ inflight'[w].request.user # Anonymous
      /\ inflight'[w].request.method = "POST"
      /\ Found(goals, inflight'[w].request)
      /\ inflight'[w].request.file = "" )
    => /\ inflight'[w].response.status = 400
       /\ goals' = goals

\* C25: upload_evidence with a file leaves the goal completed, with a bool
\* in verified and a non-empty ai_feedback, whatever the status of the goal
\* was and whether the verification accepted, rejected or failed; without
\* a file it answers 400 and leaves the table as it was.
C25_EvidenceCompletes ==
    [][\A w \in Workers : UploadStoredStep(w) /\ UploadRefusedStep(w)]_vars

\* C25 witness: evidence was uploaded for a goal marked failed and the
\* verification rejected it; the goal is completed, verified is False and
\* the feedback is not empty.
C25_Witness ==
    \E w \in Workers :
        /\ GoalAnswered(w, "upload_evidence")
        /\ inflight[w].loaded.status = "failed"
        /\ inflight[w].saved.verified = PyBool(FALSE)
        /\ inflight[w].saved.ai_feedback # <<>>
        /\ goals[inflight[w].request.goal_id].status = "completed"
        /\ goals[inflight[w].request.goal_id] = inflight[w].saved

\* C26: in every state the requests to the goal endpoints lead to, in any
\* order and interleaving, a pending goal has no evidence, None in verified
\* and an empty ai_feedback.
C26_PendingHasNoEvidence ==
    \A i \in DOMAIN goals :
        goals[i].status = "pending"
        => /\ goals[i].evidence = ""
           /\ goals[i].verified = PyNone
           /\ goals[i].ai_feedback = <<>>

\* C26 witness: evidence was uploaded for a goal, a toggle read the
\* completed row with the evidence and the verdict, and the goal is pending
\* in the table without them.
C26_Witness ==
    \E v, w \in Workers :
        /\ GoalAnswered(v, "upload_evidence")
        /\ GoalAnswered(w, "toggle_goal")
        /\ ReadAfter(v, w)
        /\ inflight[w].loaded.evidence # ""
        /\ inflight[w].loaded.verified # PyNone
        /\ inflight[w].loaded.ai_feedback # <<>>
        /\ goals[inflight[w].request.goal_id].status = "pending"
        /\ goals[inflight[w].request.goal_id].evidence = ""

\* worker w takes, in this step, a POST of a signed-in user to an endpoint
\* with a goal id, naming a goal of the table that another user owns
ForeignGoalStep(w) ==
    /\ inflight[w].pc = "idle"
    /\ inflight'[w].pc # "idle"
    /\ inflight'[w].request.view \in GoalIdViews
    /\ inflight'[w].request.user # Anonymous
    /\ inflight'[w].request.method = "POST"
    /\ inflight'[w].request.goal_id \in DOMAIN goals
    /\ goals[inflight'[w].request.goal_id].owner # inflight'[w].request.user

\* C27: every endpoint that takes a goal id answers a request that names
\* another user's goal with 404 and leaves that goal and every other goal
\* as it was, none deleted.
C27_ForeignGoal404 ==
    [][\A w \in Workers :
          ForeignGoalStep(w)
          => /\ inflight'[w].pc = "done"
             /\ inflight'[w].response.status = 404
             /\ goals' = goals]_vars

====
